---- MODULE Spec2Model ----
(***************************************************************************)
(* Maps Area Insights backend: the personalization engine, the preference  *)
(* store, the geographic cache and the insights orchestrator.              *)
(*                                                                         *)
(* Conventions of the model                                                *)
(*   - a JavaScript object is a function from field names to values; a     *)
(*     field that is undefined is a field outside the DOMAIN;              *)
(*   - an array is a sequence;                                             *)
(*   - scores are fixed-point numbers in thousandths (2.5 is 2500);        *)
(*   - ratings are in tenths (4.8 is 48);                                  *)
(*   - coordinates are in units of 0.00001 degree (0.0005 is 50);          *)
(*   - timestamps are in hours.                                            *)
(***************************************************************************)
EXTENDS Integers, Sequences, FiniteSets, TLC

VARIABLES
    score,      \* personalization engine: the call's input and its result
    keys,       \* cache-key function: two coordinates and their keys
    tags,       \* relevant-tag function: two interest lists and their tags
    client,     \* the frontend's preferences context and its saves in flight
    primary,    \* primary-type function: a list of place types and its primary type
    now,        \* the server's clock, in hours since it started
    userPrefs,  \* the user_preferences collection: user id -> document
    prefsOp,    \* the last preference operation that returned, and what it returned
    put,        \* a PUT /api/user/preferences/:userId between its read and its write
    deleted,    \* the users whose preferences were deleted and not saved since
    areaCache,  \* the area_cache collection: cache key -> document
    cacheOp,    \* the last cache operation that returned, and what it returned
    arrivals,   \* the bodies of the insights requests still to arrive, in order
    request,    \* the insights request being handled, and how far it got
    served,     \* the insights requests answered so far, with their responses
    popularAreas,   \* the popular_areas collection: area id -> document
    analytics,  \* the analytics collection: the events added, in order
    background, \* the writes started by answered requests and still pending
    calls       \* how many store reads, lookups and store writes were issued

engineVars == <<score, keys, tags, client, primary>>
prefVars == <<userPrefs, prefsOp, put, deleted>>
cacheVars == <<areaCache, cacheOp>>
flowVars == <<arrivals, request, served, popularAreas, analytics, background, calls>>
vars == <<score, keys, tags, client, primary, now, userPrefs, prefsOp, put, deleted, areaCache, cacheOp,
          arrivals, request, served, popularAreas, analytics, background, calls>>

(***************************************************************************)
(* JavaScript helpers                                                      *)
(***************************************************************************)
Has(o, f) == f \in DOMAIN o

\* o.f || d for a numeric field: undefined and 0 both give d
OrElse(o, f, d) == IF Has(o, f) /\ o[f] # 0 THEN o[f] ELSE d

\* {...a, ...b}
Spread(a, b) ==
    [f \in (DOMAIN a) \cup (DOMAIN b) |-> IF f \in DOMAIN b THEN b[f] ELSE a[f]]

Min(a, b) == IF a < b THEN a ELSE b
Max(a, b) == IF a > b THEN a ELSE b
Abs(a) == IF a < 0 THEN -a ELSE a

\* array.slice(0, n) for n >= 0
Slice(s, n) == SubSeq(s, 1, Min(n, Len(s)))

\* array.includes(x)
Includes(s, x) == \E i \in 1..Len(s) : s[i] = x

(***************************************************************************)
(* Personalization engine (personalizationService.js)                      *)
(***************************************************************************)
defaultCreatedAt == 0

defaultPreferences ==
    [ interests            |-> <<"restaurant", "tourist_attraction", "shopping_mall">>,
      ageGroup             |-> "adult",
      activityTypes        |-> <<"sightseeing", "dining", "shopping">>,
      preferredEnvironment |-> "mixed",
      priceRange           |-> "medium",
      timePreference       |-> "flexible",
      groupSize            |-> "small",
      accessibilityNeeds   |-> FALSE,
      createdAt            |-> defaultCreatedAt,
      updatedAt            |-> defaultCreatedAt ]

interestMapping ==
    [ food          |-> <<"restaurant", "cafe", "bakery", "meal_takeaway", "meal_delivery">>,
      nightlife     |-> <<"night_club", "bar", "liquor_store">>,
      culture       |-> <<"museum", "art_gallery", "library", "university">>,
      history       |-> <<"tourist_attraction", "museum", "cemetery", "place_of_worship">>,
      shopping      |-> <<"shopping_mall", "store", "clothing_store", "electronics_store">>,
      entertainment |-> <<"amusement_park", "movie_theater", "bowling_alley", "casino">>,
      nature        |-> <<"park", "zoo", "aquarium", "campground">>,
      fitness       |-> <<"gym", "spa", "stadium">>,
      business      |-> <<"bank", "post_office", "city_hall", "courthouse">>,
      health        |-> <<"hospital", "pharmacy", "doctor", "dentist">>,
      travel        |-> <<"lodging", "travel_agency", "gas_station", "airport">>,
      services      |-> <<"car_repair", "laundry", "hair_care", "beauty_salon">> ]

ageGroupPreferences ==
    [ young  |-> [ priorityTypes  |-> <<"night_club", "bar", "amusement_park", "shopping_mall">>,
                   timePreference |-> "evening",
                   priceRange     |-> "budget" ],
      adult  |-> [ priorityTypes  |-> <<"restaurant", "museum", "tourist_attraction", "park">>,
                   timePreference |-> "flexible",
                   priceRange     |-> "medium" ],
      senior |-> [ priorityTypes  |-> <<"museum", "park", "restaurant", "library">>,
                   timePreference |-> "morning",
                   priceRange     |-> "comfortable" ],
      family |-> [ priorityTypes  |-> <<"park", "zoo", "amusement_park", "restaurant">>,
                   timePreference |-> "daytime",
                   priceRange     |-> "family-friendly" ] ]

\* mappedTypes.forEach(type => types.add(type)): a Set keeps first insertions
RECURSIVE AddAll(_, _)
AddAll(types, mapped) ==
    IF mapped = <<>> THEN types
    ELSE AddAll(IF Includes(types, Head(mapped)) THEN types
                ELSE Append(types, Head(mapped)),
                Tail(mapped))

RECURSIVE CollectTypes(_, _)
CollectTypes(types, interests) ==
    IF interests = <<>> THEN types
    ELSE LET interest == Head(interests)
             mappedTypes == IF Has(interestMapping, interest)
                            THEN interestMapping[interest]
                            ELSE <<interest>>
         IN  CollectTypes(AddAll(types, mappedTypes), Tail(interests))

getRelevantPlaceTypes(interests) == CollectTypes(<<>>, interests)

\* names that every object inherits: this.interestMapping[name] is then a
\* function or an object, not undefined and not an array
InheritedNames ==
    {"constructor", "toString", "valueOf", "hasOwnProperty", "isPrototypeOf", "__proto__"}

\* mappedTypes.forEach is not a function: getRelevantPlaceTypes raises a TypeError
RelevantTypesRaises(interests) ==
    \E k \in 1..Len(interests) : interests[k] \in InheritedNames

priceMapping == [budget |-> 0, low |-> 1, medium |-> 2, comfortable |-> 3, luxury |-> 4]

\* priceMapping[userPriceRange] || 2: an unknown range and the index 0 both give 2
getPriceLevelScore(priceLevel, userPriceRange) ==
    LET preferredLevel == OrElse(priceMapping, userPriceRange, 2)
        difference == Abs(priceLevel - preferredLevel)
    IN  Max(0, 2 - difference)

\* the types getPrimaryPlaceType looks for, in the order it looks for them
primaryTypes ==
    << "restaurant", "tourist_attraction", "shopping_mall", "museum",
       "park", "night_club", "bar", "cafe", "amusement_park" >>

\* getPrimaryPlaceType(types): the first of primaryTypes that the list holds,
\* else types[0] || 'establishment'
getPrimaryPlaceType(types) ==
    IF \E k \in 1..Len(primaryTypes) : Includes(types, primaryTypes[k])
    THEN primaryTypes[CHOOSE k \in 1..Len(primaryTypes) :
                         /\ Includes(types, primaryTypes[k])
                         /\ \A j \in 1..(k - 1) : ~Includes(types, primaryTypes[j])]
    ELSE IF types # <<>> /\ types[1] # "" THEN types[1] ELSE "establishment"

getEnvironmentScore(place, preferredEnvironment) ==
    LET reviewCount == OrElse(place, "user_ratings_total", 0)
        rating == IF Has(place, "rating") THEN place.rating ELSE 0
    IN  CASE preferredEnvironment = "quiet" -> IF reviewCount < 100 THEN 2000 ELSE 0
          [] preferredEnvironment = "busy" -> IF reviewCount > 500 THEN 2000 ELSE 0
          [] preferredEnvironment = "trending" ->
                IF Has(place, "rating") /\ rating > 40 /\ reviewCount > 200 THEN 3000 ELSE 0
          [] preferredEnvironment = "family-friendly" ->
                IF \/ Includes(place.types, "park")
                   \/ Includes(place.types, "zoo")
                   \/ Includes(place.types, "amusement_park")
                THEN 2000 ELSE 0
          [] OTHER -> 1000

getTimeScore(hour, timePreference) ==
    CASE timePreference = "morning" -> IF hour >= 6 /\ hour < 12 THEN 1000 ELSE 0
      [] timePreference = "afternoon" -> IF hour >= 12 /\ hour < 17 THEN 1000 ELSE 0
      [] timePreference = "evening" -> IF hour >= 17 /\ hour < 22 THEN 1000 ELSE 0
      [] timePreference = "night" -> IF hour >= 22 \/ hour < 6 THEN 1000 ELSE 0
      [] OTHER -> 500

\* Math.log(x) in thousandths, rounded down, for the review counts of the catalogue
LnMilli(x) ==
    CASE x = 1 -> 0
      [] x = 11 -> 2397
      [] x = 51 -> 3931
      [] x = 251 -> 5525
      [] x = 1001 -> 6908

\* the score with a review term that is not capped
ScoreOfUncapped(place, relevantTypes, ageGroupPrefs, userPreferences, context) ==
    LET rating == OrElse(place, "rating", 0)
        reviewCount == OrElse(place, "user_ratings_total", 0)
        matchingTypes == SelectSeq(place.types, LAMBDA type : Includes(relevantTypes, type))
        ageGroupMatches ==
            SelectSeq(place.types, LAMBDA type : Includes(ageGroupPrefs.priorityTypes, type))
    IN    rating * 200
        + LnMilli(reviewCount + 1)
        + Len(matchingTypes) * 3000
        + Len(ageGroupMatches) * 2000
        + ( IF Has(place, "price_level")
            THEN 1000 * getPriceLevelScore(place.price_level, userPreferences.priceRange)
            ELSE 0 )
        + getEnvironmentScore(place, userPreferences.preferredEnvironment)
        + ( IF Has(context, "currentTime")
            THEN getTimeScore(context.currentTime.hour, userPreferences.timePreference)
            ELSE 0 )
        + ( IF Has(place, "business_status") /\ place.business_status = "OPERATIONAL"
            THEN 1000 ELSE 0 )

\* the body of places.map(place => ...): the score of one place
ScoreOf(place, relevantTypes, ageGroupPrefs, userPreferences, context) ==
    LET rating == OrElse(place, "rating", 0)
        reviewCount == OrElse(place, "user_ratings_total", 0)
        matchingTypes == SelectSeq(place.types, LAMBDA type : Includes(relevantTypes, type))
        ageGroupMatches ==
            SelectSeq(place.types, LAMBDA type : Includes(ageGroupPrefs.priorityTypes, type))
    IN    rating * 200
        + Min(LnMilli(reviewCount + 1), 5000)
        + Len(matchingTypes) * 3000
        + Len(ageGroupMatches) * 2000
        + ( IF Has(place, "price_level")
            THEN 1000 * getPriceLevelScore(place.price_level, userPreferences.priceRange)
            ELSE 0 )
        + getEnvironmentScore(place, userPreferences.preferredEnvironment)
        + ( IF Has(context, "currentTime")
            THEN getTimeScore(context.currentTime.hour, userPreferences.timePreference)
            ELSE 0 )
        + ( IF Has(place, "business_status") /\ place.business_status = "OPERATIONAL"
            THEN 1000 ELSE 0 )

ScorePlace(place, relevantTypes, ageGroupPrefs, userPreferences, context) ==
    LET matchingTypes == SelectSeq(place.types, LAMBDA type : Includes(relevantTypes, type))
        ageGroupMatches ==
            SelectSeq(place.types, LAMBDA type : Includes(ageGroupPrefs.priorityTypes, type))
    IN  Spread(place,
               [ personalizedScore |->
                     ScoreOf(place, relevantTypes, ageGroupPrefs, userPreferences, context),
                 matchingInterests |-> matchingTypes,
                 ageGroupMatch     |-> Len(ageGroupMatches) > 0 ])

\* what makes the try block of personalizePlaces throw: interests.forEach on
\* preferences without interests, getRelevantPlaceTypes on an inherited name,
\* place.types.filter on a place without types, priorityTypes.includes when
\* the age group is an inherited name, currentTime.getHours() on a value that
\* is no Date
ScoringRaises(places, userPreferences, context) ==
    \/ ~Has(userPreferences, "interests")
    \/ RelevantTypesRaises(userPreferences.interests)
    \/ /\ places # <<>>
       /\ \/ \E i \in 1..Len(places) : ~Has(places[i], "types")
          \/ Has(userPreferences, "ageGroup") /\ userPreferences.ageGroup \in InheritedNames
          \/ Has(context, "currentTime") /\ ~context.currentTime.isDate

\* Array.prototype.sort((a, b) => b.personalizedScore - a.personalizedScore):
\* stable, so equal scores keep their order
\* the comparator written (a, b) => a.personalizedScore - b.personalizedScore
RECURSIVE InsertAscending(_, _)
InsertAscending(sorted, place) ==
    IF sorted = <<>> THEN <<place>>
    ELSE IF Head(sorted).personalizedScore <= place.personalizedScore
         THEN <<Head(sorted)>> \o InsertAscending(Tail(sorted), place)
         ELSE <<place>> \o sorted

RECURSIVE InsertByScore(_, _)
InsertByScore(sorted, place) ==
    IF sorted = <<>> THEN <<place>>
    ELSE IF Head(sorted).personalizedScore >= place.personalizedScore
         THEN <<Head(sorted)>> \o InsertByScore(Tail(sorted), place)
         ELSE <<place>> \o sorted

RECURSIVE SortByScore(_, _)
SortByScore(sorted, rest) ==
    IF rest = <<>> THEN sorted
    ELSE SortByScore(InsertByScore(sorted, Head(rest)), Tail(rest))

minRelevance == 2000
defaultMaxResults == 15

personalizePlaces(places, userPreferences, context) ==
    IF ScoringRaises(places, userPreferences, context)
    THEN Slice(places, defaultMaxResults)
    ELSE LET relevantTypes == getRelevantPlaceTypes(userPreferences.interests)
             ageGroupPrefs ==
                 IF Has(userPreferences, "ageGroup")
                    /\ Has(ageGroupPreferences, userPreferences.ageGroup)
                 THEN ageGroupPreferences[userPreferences.ageGroup]
                 ELSE ageGroupPreferences.adult
             scoredPlaces ==
                 [ i \in 1..Len(places) |->
                     ScorePlace(places[i], relevantTypes, ageGroupPrefs, userPreferences,
                                context) ]
             relevant ==
                 SelectSeq(scoredPlaces, LAMBDA place : place.personalizedScore > minRelevance)
         IN  Slice(SortByScore(<<>>, relevant),
                   OrElse(userPreferences, "maxResults", defaultMaxResults))


(***************************************************************************)
(* Preference store (PersonalizationService get/save, the controller's     *)
(* GET, POST, PUT and DELETE handlers)                                     *)
(***************************************************************************)
NoUser == ""
Users == {"u1"}

NoDoc == [exists |-> FALSE, data |-> <<>>]
Doc(data) == [exists |-> TRUE, data |-> data]

\* getUserPreferences without its try/catch: a failed read is thrown to the caller
getUserPreferencesUncaught(store, userId, readFails, time) ==
    IF userId = NoUser THEN [threw |-> FALSE, value |-> defaultPreferences]
    ELSE IF readFails THEN [threw |-> TRUE, value |-> <<>>]
    ELSE IF ~store[userId].exists THEN [threw |-> FALSE, value |-> defaultPreferences]
    ELSE [ threw |-> FALSE,
           value |-> Spread(defaultPreferences, store[userId].data) ]

\* getUserPreferences(userId): every failure is caught and answered with the defaults
getUserPreferences(store, userId, readFails, time) ==
    IF userId = NoUser THEN [threw |-> FALSE, value |-> defaultPreferences]
    ELSE IF readFails THEN [threw |-> FALSE, value |-> defaultPreferences]
    ELSE IF ~store[userId].exists THEN [threw |-> FALSE, value |-> defaultPreferences]
    ELSE LET preferences == store[userId].data
         IN  [ threw |-> FALSE,
               value |-> Spread(Spread(defaultPreferences, preferences),
                                [updatedAt |-> IF Has(preferences, "updatedAt")
                                               THEN preferences.updatedAt ELSE time]) ]

\* the object saveUserPreferences builds and returns
preferencesToSave(userId, preferences, time) ==
    Spread(Spread(defaultPreferences, preferences),
           [ userId    |-> userId,
             updatedAt |-> time,
             createdAt |-> IF Has(preferences, "createdAt")
                           THEN preferences.createdAt ELSE time ])

\* doc.set(data, { merge: true }): the fields of data replace the document's
SetMerge(store, userId, data) ==
    [store EXCEPT ![userId] = Doc(Spread(store[userId].data, data))]

\* a save that swallows a failed write and answers as if nothing was asked
saveUserPreferencesSwallowed(store, userId, preferences, writeFails, time) ==
    IF writeFails
    THEN [threw |-> FALSE, value |-> <<>>, store |-> store]
    ELSE [ threw |-> FALSE,
           value |-> preferencesToSave(userId, preferences, time),
           store |-> SetMerge(store, userId, preferencesToSave(userId, preferences, time)) ]

\* saveUserPreferences(userId, preferences): a failed write is thrown again
saveUserPreferences(store, userId, preferences, writeFails, time) ==
    IF writeFails
    THEN [threw |-> TRUE, value |-> <<>>, store |-> store]
    ELSE [ threw |-> FALSE,
           value |-> preferencesToSave(userId, preferences, time),
           store |-> SetMerge(store, userId, preferencesToSave(userId, preferences, time)) ]

\* a delete that removes nothing
KeepDocument(store, userId) == store

\* doc(userId).delete()
DeleteDocument(store, userId) == [store EXCEPT ![userId] = NoDoc]

getAvailableInterests == DOMAIN interestMapping
getAvailableAgeGroups == DOMAIN ageGroupPreferences
validEnvironments == {"quiet", "busy", "trending", "family-friendly", "mixed"}
validPriceRanges == {"budget", "low", "medium", "comfortable", "luxury"}

\* the options the GET handler publishes for timePreference
timePreferences == {"morning", "afternoon", "evening", "night", "flexible"}

\* if (preferences.field): a field that is undefined or the empty string is skipped
Given(preferences, f) == Has(preferences, f) /\ preferences[f] # ""

\* validatePreferences(body).isValid; interests, ageGroup, preferredEnvironment and
\* priceRange are looked at, timePreference and the other fields are not
validatePreferences(body) ==
    IF ~Has(body, "preferences") THEN FALSE
    ELSE LET preferences == body.preferences
         IN  /\ Has(preferences, "interests") =>
                  \A i \in 1..Len(preferences.interests) :
                      preferences.interests[i] \in getAvailableInterests
             /\ Given(preferences, "ageGroup") =>
                  preferences.ageGroup \in getAvailableAgeGroups
             /\ Given(preferences, "preferredEnvironment") =>
                  preferences.preferredEnvironment \in validEnvironments
             /\ Given(preferences, "priceRange") =>
                  preferences.priceRange \in validPriceRanges

(***************************************************************************)
(* Cache keys (FirebaseService.generateCacheKey)                           *)
(*                                                                         *)
(* A coordinate is a whole number of hundred-thousandths of a degree, so   *)
(* coords.lat * 1000 is c / 100 and the rounded value, in thousandths of a *)
(* degree, is a whole number.  The inputs leave out the exact half points  *)
(* (c % 100 = 50), where the result depends on the floating-point error of *)
(* the product.                                                            *)
(***************************************************************************)
UnitsPerMilli == 100

\* Math.floor, which is not what the code calls
FloorMilli(c) == c \div UnitsPerMilli

\* Math.round(c * 1000) with c in degrees: the nearest whole number, halves up
RoundMilli(c) == (c + (UnitsPerMilli \div 2)) \div UnitsPerMilli

defaultKeyRadius == 3000
popularAreaRadius == 1000

\* `${lat}_${lng}_${radius}`: the three numbers, separated
generateCacheKey(coords, radius) ==
    <<RoundMilli(coords.lat), RoundMilli(coords.lng), radius>>

(***************************************************************************)
(* The clock                                                               *)
(***************************************************************************)
cacheTTL == 24          \* hours
TicksPerTTL == 1        \* the clock advances by cacheTTL / TicksPerTTL hours
MaxTicks == 2           \* and stops after MaxTicks steps

TickStep == cacheTTL \div TicksPerTTL

Tick ==
    /\ now + TickStep <= MaxTicks * TickStep
    /\ now' = now + TickStep

(***************************************************************************)
(* Places lookup adapter (GooglePlacesService)                             *)
(*                                                                         *)
(* A reply of the provider is a record: kind "response" with the status    *)
(* and, when there are any, the results of the body; kind "timeout" when   *)
(* no response arrived within the 10 s of the call.                        *)
(***************************************************************************)
\* JavaScript null and undefined where a whole value is missing; an object
\* without fields is <<>>
Null == [isNull |-> TRUE]

Categories == <<"landmarks", "restaurants", "attractions", "entertainment", "shopping">>
CategorySet == { Categories[i] : i \in 1..Len(Categories) }

\* the place type each category is searched with
searchType ==
    [ landmarks |-> "establishment", restaurants |-> "restaurant",
      attractions |-> "tourist_attraction", entertainment |-> "night_club",
      shopping |-> "shopping_mall" ]

defaultRadius == 3000
lookupLimit == 10

Fulfilled(value) == [status |-> "fulfilled", value |-> value]
Rejected == [status |-> "rejected", value |-> <<>>]

\* the promise of one searchNearbyPlaces call, once settled
searchNearbyPlaces(reply) ==
    IF reply.kind # "response" \/ reply.status \notin {"OK", "ZERO_RESULTS"}
    THEN Rejected
    ELSE Fulfilled(IF Has(reply, "results") THEN reply.results ELSE <<>>)

processResult(result) ==
    IF result.status = "fulfilled" THEN Slice(result.value, lookupLimit) ELSE <<>>

\* replies: category -> reply of the provider to that category's search
AreaBundle(coords, replies, time) ==
    [ landmarks     |-> processResult(searchNearbyPlaces(replies.landmarks)),
      restaurants   |-> processResult(searchNearbyPlaces(replies.restaurants)),
      attractions   |-> processResult(searchNearbyPlaces(replies.attractions)),
      entertainment |-> processResult(searchNearbyPlaces(replies.entertainment)),
      shopping      |-> processResult(searchNearbyPlaces(replies.shopping)),
      coordinates   |-> coords,
      searchRadius  |-> defaultRadius,
      timestamp     |-> time ]

\* Promise.all in place of Promise.allSettled: one rejected search rejects
\* the whole fan-out, and the catch rethrows
getAreaInsightsFailFast(coords, replies, time) ==
    [ threw |-> \E c \in DOMAIN replies : searchNearbyPlaces(replies[c]).status = "rejected",
      value |-> AreaBundle(coords, replies, time) ]

\* Promise.allSettled never rejects and processResult does not raise on a
\* list, so the catch that rethrows is not entered
getAreaInsights(coords, replies, time) ==
    [threw |-> FALSE, value |-> AreaBundle(coords, replies, time)]

(***************************************************************************)
(* Geographic cache (FirebaseService)                                      *)
(***************************************************************************)
\* cacheAge > maxAge, both in hours here
ExpiredAtTTL(entry, time) == time - entry.cachedAt >= cacheTTL

Expired(entry, time) == time - entry.cachedAt > cacheTTL

KeepEntry(store, cacheKey) == store

\* doc.ref.delete()
RemoveEntry(store, cacheKey) == [store EXCEPT ![cacheKey] = NoDoc]

\* the value returned and the store afterwards; a failed read or a failed
\* delete lands in the catch, which returns null
getCachedAreaData(store, cacheKey, readFails, deleteFails, time) ==
    IF readFails THEN [value |-> Null, store |-> store]
    ELSE IF ~store[cacheKey].exists THEN [value |-> Null, store |-> store]
    ELSE IF Expired(store[cacheKey].data, time)
         THEN [ value |-> Null,
                store |-> IF deleteFails THEN store ELSE RemoveEntry(store, cacheKey) ]
         ELSE [value |-> store[cacheKey].data.areaData, store |-> store]

\* the entry is built and never written
cacheAreaDataDropped(store, cacheKey, areaData, writeFails, time) == store

\* a cache that declines a bundle in which a category is empty
cacheAreaDataComplete(store, cacheKey, areaData, writeFails, time) ==
    IF writeFails \/ \E c \in CategorySet : areaData[c] = <<>> THEN store
    ELSE [ store EXCEPT ![cacheKey] =
             Doc([ areaData |-> areaData, cachedAt |-> time,
                   accessCount |-> 1, lastAccessed |-> time ]) ]

\* the store afterwards; a failed write is logged and swallowed
cacheAreaData(store, cacheKey, areaData, writeFails, time) ==
    IF writeFails THEN store
    ELSE [ store EXCEPT ![cacheKey] =
             Doc([ areaData |-> areaData, cachedAt |-> time,
                   accessCount |-> 1, lastAccessed |-> time ]) ]

\* a cleanup whose query is cachedAt <= cutoffTime
cleanupExpiredCacheAtCutoff(store, queryFails, commitFails, time) ==
    LET cutoffTime == time - cacheTTL
        snapshot == { k \in DOMAIN store :
                        store[k].exists /\ store[k].data.cachedAt <= cutoffTime }
    IN  IF queryFails \/ (commitFails /\ snapshot # {})
        THEN [value |-> 0, store |-> store]
        ELSE [ value |-> Cardinality(snapshot),
               store |-> [k \in DOMAIN store |-> IF k \in snapshot THEN NoDoc ELSE store[k]] ]

\* cleanupExpiredCache(): the count returned and the store afterwards.  The
\* query is where('cachedAt', '<', cutoffTime); the deletes are one batch,
\* committed when there is any; a failed query or a failed commit lands in
\* the catch, which returns 0
cleanupExpiredCache(store, queryFails, commitFails, time) ==
    LET cutoffTime == time - cacheTTL
        snapshot == { k \in DOMAIN store :
                        store[k].exists /\ store[k].data.cachedAt < cutoffTime }
    IN  IF queryFails \/ (commitFails /\ snapshot # {})
        THEN [value |-> 0, store |-> store]
        ELSE [ value |-> Cardinality(snapshot),
               store |-> [k \in DOMAIN store |-> IF k \in snapshot THEN NoDoc ELSE store[k]] ]

\* the store afterwards.  The module binds getDb, Collections and uuidv4 only:
\* evaluating admin.firestore.FieldValue.increment(1) raises a ReferenceError
\* before docRef.update is called, and the catch swallows it.
updateCacheAccess(store, cacheKey, time) == store

(***************************************************************************)
(* Inputs of the personalization engine                                    *)
(***************************************************************************)
MaxPlaces == 3      \* longest base list of places
MaxRepeat == 6      \* a base list repeated this often is longer than the default cap

\* places as the provider returns them; the last one has no types
Catalogue ==
    << [ place_id |-> "p1", rating |-> 48, user_ratings_total |-> 1000,
         types |-> <<"restaurant", "food">>, price_level |-> 2,
         business_status |-> "OPERATIONAL" ],
       [ place_id |-> "p2", rating |-> 45, user_ratings_total |-> 250,
         types |-> <<"museum", "tourist_attraction">>,
         business_status |-> "OPERATIONAL" ],
       [ place_id |-> "p3", rating |-> 40, user_ratings_total |-> 50,
         types |-> <<"bar", "night_club">>, price_level |-> 0,
         business_status |-> "OPERATIONAL" ],
       [ place_id |-> "p4", types |-> <<"store">>,
         business_status |-> "CLOSED_TEMPORARILY" ],
       [ place_id |-> "p5", rating |-> 45, user_ratings_total |-> 250,
         types |-> <<"park">>, business_status |-> "OPERATIONAL" ],
       [ place_id |-> "p6", rating |-> 45, user_ratings_total |-> 250,
         types |-> <<"zoo", "park">>, business_status |-> "OPERATIONAL" ],
       [ place_id |-> "p7", rating |-> 30, user_ratings_total |-> 10 ] >>

SeqsUpTo(S, n) == UNION { [1..k -> S] : k \in 0..n }

RECURSIVE Repeat(_, _)
Repeat(s, n) == IF n = 0 THEN <<>> ELSE s \o Repeat(s, n - 1)

PlaceLists ==
    { Repeat([i \in 1..Len(base) |-> Catalogue[base[i]]], r) :
        base \in SeqsUpTo(1..Len(Catalogue), MaxPlaces), r \in {1, MaxRepeat} }

ScorePreferences ==
    { defaultPreferences,
      [ interests |-> <<"food">>, ageGroup |-> "young", preferredEnvironment |-> "trending",
        priceRange |-> "budget", timePreference |-> "evening", maxResults |-> 2 ],
      [ interests |-> <<"culture", "history">>, ageGroup |-> "senior",
        preferredEnvironment |-> "quiet", priceRange |-> "comfortable",
        timePreference |-> "morning" ],
      [ interests |-> <<"nature", "nature", "picnic">>, ageGroup |-> "family",
        preferredEnvironment |-> "family-friendly", priceRange |-> "luxury",
        timePreference |-> "night", maxResults |-> 1 ],
      [ interests |-> <<>>, ageGroup |-> "elder", preferredEnvironment |-> "busy",
        priceRange |-> "low", timePreference |-> "afternoon" ] }

Date(h) == [isDate |-> TRUE, hour |-> h]
NotADate == [isDate |-> FALSE, hour |-> 0]

ScoreContexts ==
    { [currentTime |-> Date(9)], [currentTime |-> Date(20)],
      [currentTime |-> NotADate], <<>> }

ScoreIdle == [places |-> <<>>, userPreferences |-> defaultPreferences,
              context |-> <<>>, done |-> FALSE, result |-> <<>>]

MaxCell == 1        \* the grid cells of the coordinates run from -MaxCell to MaxCell

\* the centre of each cell and the points just inside its two edges
KeyOffsets == {-49, 0, 49}
KeyCoordinates == { UnitsPerMilli * k + o : k \in -MaxCell..MaxCell, o \in KeyOffsets }
KeyCoords == [lat : KeyCoordinates, lng : KeyCoordinates]

KeysIdle == [a |-> [lat |-> 0, lng |-> 0], b |-> [lat |-> 0, lng |-> 0],
             radius |-> defaultKeyRadius, done |-> FALSE, keyA |-> <<>>, keyB |-> <<>>]

\* initialState.preferences of the frontend's preferences context, which its
\* first save sends
initialStatePreferences ==
    [ interests            |-> <<"restaurant", "tourist_attraction", "shopping_mall">>,
      ageGroup             |-> "adult",
      activityTypes        |-> <<"sightseeing", "dining", "shopping">>,
      preferredEnvironment |-> "mixed",
      priceRange           |-> "medium",
      timePreference       |-> "flexible",
      groupSize            |-> "small",
      accessibilityNeeds   |-> FALSE ]

PrimaryIdle == [types |-> <<>>, done |-> FALSE, result |-> ""]

NoSave == <<>>

\* the context after its user id is set: no change, no timer, no save in flight
ClientIdle ==
    [ preferences |-> initialStatePreferences, hasChanges |-> FALSE, error |-> FALSE,
      timer |-> FALSE, inFlight |-> {}, sent |-> NoSave, saves |-> 0, edits |-> 0,
      refused |-> FALSE ]

TagsIdle == [interests |-> <<>>, repeated |-> <<>>, done |-> FALSE,
             result |-> <<>>, resultRepeated |-> <<>>]

PrefsOpIdle == [op |-> "none", userId |-> NoUser, status |-> 0, threw |-> FALSE,
                value |-> <<>>, partial |-> <<>>, failed |-> FALSE]
PutIdle == [active |-> FALSE, userId |-> NoUser, partial |-> <<>>, merged |-> <<>>]

PrefsIdle ==
    /\ userPrefs = [u \in Users |-> NoDoc]
    /\ prefsOp = PrefsOpIdle
    /\ put = PutIdle
    /\ deleted = {}

(***************************************************************************)
(* Inputs of the lookup adapter and of the cache                           *)
(***************************************************************************)
\* further results of the 'establishment' search, behind the first three
FillerIds == <<"f1", "f2", "f3", "f4", "f5", "f6", "f7", "f8">>
Filler(i) ==
    [ place_id |-> FillerIds[i], rating |-> 30 + i, user_ratings_total |-> 10,
      types |-> <<"point_of_interest", "establishment">>,
      business_status |-> "OPERATIONAL" ]

\* what the provider finds per category: more landmarks than lookupLimit,
\* and p1, p2, p3 each under two categories
ProviderResults ==
    [ landmarks     |-> <<Catalogue[1], Catalogue[2], Catalogue[3]>>
                          \o [i \in 1..Len(FillerIds) |-> Filler(i)],
      restaurants   |-> <<Catalogue[1]>>,
      attractions   |-> <<Catalogue[2], Catalogue[5], Catalogue[6]>>,
      entertainment |-> <<Catalogue[3]>>,
      shopping      |-> <<Catalogue[4]>> ]

\* the same area with a place that has no types among the attractions and
\* no shopping mall at all
MalformedResults ==
    [ ProviderResults EXCEPT !.attractions = <<Catalogue[2], Catalogue[7]>>,
                             !.shopping = <<>> ]

Timeout == [kind |-> "timeout"]
OverQueryLimit == [kind |-> "response", status |-> "OVER_QUERY_LIMIT"]

\* the provider's replies when the searches of the categories in failed fail
Replies(results, failed) ==
    [ c \in CategorySet |->
        IF c \in failed
        THEN IF c \in {"restaurants", "entertainment"} THEN Timeout ELSE OverQueryLimit
        ELSE IF results[c] = <<>>
             THEN [kind |-> "response", status |-> "ZERO_RESULTS"]
             ELSE [kind |-> "response", status |-> "OK", results |-> results[c]] ]

\* coordinates of insights requests: the two corners of the valid range, and
\* a second coordinate in the rounding cell of the first corner
AreaCoords ==
    { [lat |-> 9000000, lng |-> 18000000], [lat |-> 8999970, lng |-> 17999960],
      [lat |-> -9000000, lng |-> -18000000] }

AreaKeys == { generateCacheKey(c, defaultKeyRadius) : c \in AreaCoords }

CacheOpIdle == [op |-> "none", key |-> <<>>, value |-> Null, failed |-> "none"]

CacheIdle ==
    /\ areaCache = [k \in AreaKeys |-> NoDoc]
    /\ cacheOp = CacheOpIdle

PopularAreaIds == { generateCacheKey(c, popularAreaRadius) : c \in AreaCoords }

RequestIdle ==
    [ pc |-> "idle", body |-> Null, cacheKey |-> <<>>, areaData |-> Null,
      fromCache |-> FALSE, storeFailed |-> FALSE, prefsFailed |-> FALSE,
      lookedUp |-> FALSE, results |-> <<>>, failed |-> {}, settled |-> {} ]

CallsIdle == [cacheReads |-> 0, lookups |-> 0, cacheWrites |-> 0, touches |-> 0,
              preferenceReads |-> 0]

FlowIdle ==
    /\ arrivals = <<>>
    /\ request = RequestIdle
    /\ served = <<>>
    /\ popularAreas = [a \in PopularAreaIds |-> NoDoc]
    /\ analytics = <<>>
    /\ background = {}
    /\ calls = CallsIdle

InitScore ==
    /\ now = 0
    /\ PrefsIdle
    /\ score \in { [places |-> ps, userPreferences |-> up, context |-> c,
                    done |-> FALSE, result |-> <<>>] :
                     ps \in PlaceLists, up \in ScorePreferences, c \in ScoreContexts }
    /\ keys = KeysIdle
    /\ tags = TagsIdle
    /\ client = ClientIdle
    /\ primary = PrimaryIdle
    /\ CacheIdle
    /\ FlowIdle

\* one call of personalizePlaces
Personalize ==
    /\ ~score.done
    /\ score' = [score EXCEPT
                   !.done = TRUE,
                   !.result = personalizePlaces(score.places, score.userPreferences,
                                                score.context)]
    /\ UNCHANGED <<keys, tags, client, primary, now, prefVars, cacheVars, flowVars>>

NextScore == Personalize

SpecScore == InitScore /\ [][NextScore]_vars


(***************************************************************************)
(* C1                                                                      *)
(***************************************************************************)
ScoringCompleted ==
    /\ score.done
    /\ ~ScoringRaises(score.places, score.userPreferences, score.context)

ConfiguredCap == OrElse(score.userPreferences, "maxResults", defaultMaxResults)

CappedAndRelevant ==
    /\ Len(score.result) <= ConfiguredCap
    /\ \A i \in 1..Len(score.result) : score.result[i].personalizedScore > 2000

InitKeys ==
    /\ now = 0
    /\ PrefsIdle
    /\ keys \in { [a |-> a, b |-> b, radius |-> r, done |-> FALSE,
                   keyA |-> <<>>, keyB |-> <<>>] :
                    a \in KeyCoords, b \in KeyCoords,
                    r \in {defaultKeyRadius, popularAreaRadius} }
    /\ score = ScoreIdle
    /\ tags = TagsIdle
    /\ client = ClientIdle
    /\ primary = PrimaryIdle
    /\ CacheIdle
    /\ FlowIdle

GenerateKeys ==
    /\ ~keys.done
    /\ keys' = [keys EXCEPT !.done = TRUE,
                            !.keyA = generateCacheKey(keys.a, keys.radius),
                            !.keyB = generateCacheKey(keys.b, keys.radius)]
    /\ UNCHANGED <<score, tags, client, primary, now, prefVars, cacheVars, flowVars>>

NextKeys == GenerateKeys

SpecKeys == InitKeys /\ [][NextKeys]_vars

(***************************************************************************)
(* C3                                                                      *)
(***************************************************************************)
HalfCell == UnitsPerMilli \div 2

\* C3 as stated: two coordinates whose latitudes differ by less than 0.0005 degrees
\* and whose longitudes differ by less than 0.0005 degrees get the same key at the
\* same radius.
C3_CloseCoordinatesShareKey ==
    ( /\ keys.done
      /\ Abs(keys.a.lat - keys.b.lat) < HalfCell
      /\ Abs(keys.a.lng - keys.b.lng) < HalfCell )
    => keys.keyA = keys.keyB

SameCell(x, y) ==
    \E g \in -(MaxCell + 1)..(MaxCell + 1) :
        /\ Abs(x - UnitsPerMilli * g) < HalfCell
        /\ Abs(y - UnitsPerMilli * g) < HalfCell

\* C3 as amended: two coordinates whose latitudes are both less than 0.0005 degrees
\* from the same three-decimal value, and whose longitudes are both less than 0.0005
\* degrees from the same three-decimal value, get the same key at the same radius.
C3_SameCellSharesKey ==
    ( /\ keys.done
      /\ SameCell(keys.a.lat, keys.b.lat)
      /\ SameCell(keys.a.lng, keys.b.lng) )
    => keys.keyA = keys.keyB

\* two different coordinates of one cell, on either side of its centre
C3_Witness ==
    /\ keys.done
    /\ SameCell(keys.a.lat, keys.b.lat)
    /\ SameCell(keys.a.lng, keys.b.lng)
    /\ keys.a.lat < 0 /\ keys.b.lat > 0
    /\ keys.a.lng > UnitsPerMilli /\ keys.b.lng < UnitsPerMilli
    /\ keys.keyA = keys.keyB


(***************************************************************************)
(* The preference endpoints                                                *)
(***************************************************************************)
\* a document written before the service filled in the defaults on every save
LegacyDoc(u) == [interests |-> <<"nightlife">>, ageGroup |-> "young", userId |-> u]

ValidPartials ==
    { [ageGroup |-> "senior"],
      [interests |-> <<"food">>],
      [interests |-> <<"nature">>, priceRange |-> "luxury"] }

\* partial records with a value that no published enumeration holds
UnknownPartials ==
    { [ageGroup |-> "elder"],
      [interests |-> <<"food", "gossip">>],
      [preferredEnvironment |-> "noisy"],
      [priceRange |-> "free"],
      [timePreference |-> "midnight"] }

\* whole records a client holds without having edited them: the one a GET
\* returns for a user without a document, and the frontend's initial one
EchoedRecords == {defaultPreferences, initialStatePreferences}

PartialRecords == ValidPartials \cup UnknownPartials

MaxPrefTicks == 1       \* clock steps while the preference endpoints run

RequestBodies ==
    { [preferences |-> p, userId |-> u] : p \in PartialRecords, u \in Users }
    \cup { [preferences |-> p] : p \in PartialRecords }
    \cup { [userId |-> u] : u \in Users }

InitPrefs ==
    /\ now = 0
    /\ score = ScoreIdle
    /\ keys = KeysIdle
    /\ tags = TagsIdle
    /\ client = ClientIdle
    /\ primary = PrimaryIdle
    /\ userPrefs \in [Users -> {NoDoc} \cup {Doc(LegacyDoc(u)) : u \in Users}]
    /\ \A u \in Users : userPrefs[u].exists => userPrefs[u].data.userId = u
    /\ prefsOp = PrefsOpIdle
    /\ put = PutIdle
    /\ deleted = {}
    /\ CacheIdle
    /\ FlowIdle

Returned(op, userId, status, threw, value, partial, failed) ==
    [op |-> op, userId |-> userId, status |-> status, threw |-> threw, value |-> value,
     partial |-> partial, failed |-> failed]

\* personalizationService.getUserPreferences(userId), as the GET handler and the
\* orchestrator call it
GetPreferences(userId, readFails) ==
    LET r == getUserPreferences(userPrefs, userId, readFails, now)
    IN  /\ prefsOp' = Returned("get", userId, 0, r.threw, r.value, <<>>, readFails)
        /\ UNCHANGED <<userPrefs, put, deleted, now, engineVars, cacheVars, flowVars>>

\* personalizationService.saveUserPreferences(userId, preferences)
SavePreferences(userId, preferences, writeFails) ==
    LET r == saveUserPreferences(userPrefs, userId, preferences, writeFails, now)
    IN  /\ userPrefs' = r.store
        /\ prefsOp' = Returned("save", userId, 0, r.threw, r.value, preferences,
                               writeFails)
        /\ deleted' = IF r.threw THEN deleted ELSE deleted \ {userId}
        /\ UNCHANGED <<put, now, engineVars, cacheVars, flowVars>>

\* POST /api/user/preferences; uuidv4() is a user id without a document
PostPreferences(body, writeFails) ==
    IF ~validatePreferences(body)
    THEN /\ prefsOp' = Returned("post", NoUser, 400, FALSE, <<>>,
                                IF Has(body, "preferences") THEN body.preferences
                                                            ELSE <<>>, FALSE)
         /\ UNCHANGED <<userPrefs, put, deleted, now, engineVars, cacheVars, flowVars>>
    ELSE \E userId \in Users :
           /\ IF Has(body, "userId") THEN userId = body.userId
                                     ELSE ~userPrefs[userId].exists
           /\ LET r == saveUserPreferences(userPrefs, userId, body.preferences,
                                           writeFails, now)
              IN  /\ userPrefs' = r.store
                  /\ prefsOp' = Returned("post", userId, IF r.threw THEN 500 ELSE 201,
                                         FALSE, r.value, body.preferences,
                                         writeFails)
                  /\ deleted' = IF r.threw THEN deleted ELSE deleted \ {userId}
           /\ UNCHANGED <<put, now, engineVars, cacheVars, flowVars>>

\* PUT /api/user/preferences/:userId up to its second await: validation, the read
\* of the existing preferences and the merge
PutRead(userId, preferences, readFails) ==
    /\ ~put.active
    /\ IF ~validatePreferences([preferences |-> preferences])
       THEN /\ prefsOp' = Returned("put", userId, 400, FALSE, <<>>, preferences,
                                   FALSE)
            /\ UNCHANGED put
       ELSE LET existingPreferences ==
                    getUserPreferences(userPrefs, userId, readFails, now).value
                mergedPreferences ==
                    Spread(Spread(existingPreferences, preferences), [updatedAt |-> now])
            IN  /\ put' = [active |-> TRUE, userId |-> userId, partial |-> preferences,
                           merged |-> mergedPreferences]
                /\ UNCHANGED prefsOp
    /\ UNCHANGED <<userPrefs, deleted, now, engineVars, cacheVars, flowVars>>

\* the rest of the PUT: the save and the response
PutWrite(writeFails) ==
    /\ put.active
    /\ LET r == saveUserPreferences(userPrefs, put.userId, put.merged, writeFails, now)
       IN  /\ userPrefs' = r.store
           /\ prefsOp' = Returned("put", put.userId, IF r.threw THEN 500 ELSE 200, FALSE,
                                  r.value, put.partial, writeFails)
           /\ deleted' = IF r.threw THEN deleted ELSE deleted \ {put.userId}
    /\ put' = PutIdle
    /\ UNCHANGED <<now, engineVars, cacheVars, flowVars>>

\* deleteUserPreferences: a failed delete is answered with 500
DeletePreferences(userId, deleteFails) ==
    /\ userPrefs' = IF deleteFails THEN userPrefs ELSE DeleteDocument(userPrefs, userId)
    /\ prefsOp' = Returned("delete", userId, IF deleteFails THEN 500 ELSE 200, FALSE,
                           <<>>, <<>>, deleteFails)
    /\ deleted' = IF deleteFails THEN deleted ELSE deleted \cup {userId}
    /\ UNCHANGED <<put, now, engineVars, cacheVars, flowVars>>

TickPrefs ==
    /\ now < MaxPrefTicks * TickStep
    /\ Tick
    /\ UNCHANGED <<prefVars, engineVars, cacheVars, flowVars>>

NextPrefs ==
    \/ \E u \in Users \cup {NoUser}, f \in BOOLEAN : GetPreferences(u, f)
    \/ \E u \in Users, p \in ValidPartials, f \in BOOLEAN : SavePreferences(u, p, f)
    \/ \E b \in RequestBodies, f \in BOOLEAN : PostPreferences(b, f)
    \/ \E u \in Users, p \in PartialRecords, f \in BOOLEAN : PutRead(u, p, f)
    \/ \E f \in BOOLEAN : PutWrite(f)
    \/ \E u \in Users, f \in BOOLEAN : DeletePreferences(u, f)
    \/ TickPrefs

SpecPrefs == InitPrefs /\ [][NextPrefs]_vars


(***************************************************************************)
(* C2                                                                      *)
(***************************************************************************)
SeniorOnly == [ageGroup |-> "senior"]

\* C2: a successful save, POST or PUT of the partial record {ageGroup: "senior"} for
\* a user whose stored record has interests leaves the stored interests as they were.
C2_PartialSaveKeepsInterests ==
    [][ \A u \in Users :
          ( /\ userPrefs[u].exists
            /\ Has(userPrefs[u].data, "interests")
            /\ userPrefs'[u] # userPrefs[u]
            /\ prefsOp'.op \in {"save", "post", "put"}
            /\ prefsOp'.userId = u
            /\ prefsOp'.partial = SeniorOnly
            /\ ~prefsOp'.failed )
          => userPrefs'[u].data.interests = userPrefs[u].data.interests ]_vars

(***************************************************************************)
(* C9                                                                      *)
(***************************************************************************)
\* C9: getUserPreferences never raises; it returns the default record when the user
\* id is absent, the user has no document or the read fails; otherwise every stored
\* field keeps its stored value and every missing field that the default record
\* documents has its default value (a missing updatedAt is the time of the read).
C9_GetFallsBackToDefaults ==
    prefsOp.op = "get" =>
        /\ ~prefsOp.threw
        /\ IF \/ prefsOp.userId = NoUser
              \/ prefsOp.failed
              \/ ~userPrefs[prefsOp.userId].exists
           THEN prefsOp.value = defaultPreferences
           ELSE LET stored == userPrefs[prefsOp.userId].data
                IN  /\ \A f \in DOMAIN stored : prefsOp.value[f] = stored[f]
                    /\ \A f \in (DOMAIN defaultPreferences \ {"updatedAt"}) \ DOMAIN stored :
                          prefsOp.value[f] = defaultPreferences[f]
                    /\ DOMAIN prefsOp.value = DOMAIN stored \cup DOMAIN defaultPreferences

\* a read of a stored document that lacks fields
C9_Witness ==
    /\ prefsOp.op = "get"
    /\ prefsOp.userId \in Users
    /\ ~prefsOp.failed
    /\ userPrefs[prefsOp.userId].exists
    /\ ~Has(userPrefs[prefsOp.userId].data, "priceRange")
    /\ prefsOp.value.priceRange = "medium"
    /\ prefsOp.value.interests = <<"nightlife">>

(***************************************************************************)
(* C10                                                                     *)
(***************************************************************************)
\* C10: a getUserPreferences for a user whose preferences were deleted, and not saved
\* since, returns the default record.
C10_DeletedUserGetsDefaults ==
    (prefsOp.op = "get" /\ prefsOp.userId \in deleted) =>
        /\ ~prefsOp.threw
        /\ prefsOp.value = defaultPreferences

\* a read that succeeded for a deleted user, with a PUT of that user in flight
C10_Witness ==
    /\ prefsOp.op = "get"
    /\ prefsOp.userId \in deleted
    /\ ~prefsOp.failed
    /\ put.active
    /\ put.userId = prefsOp.userId
    /\ put.merged.interests = <<"food">>


(***************************************************************************)
(* C11                                                                     *)
(***************************************************************************)
\* the partial record carries a value outside the published enumeration of an
\* enumerated field
OutsideEnumeration(preferences) ==
    \/ /\ Has(preferences, "interests")
       /\ \E i \in 1..Len(preferences.interests) :
              preferences.interests[i] \notin getAvailableInterests
    \/ Has(preferences, "ageGroup") /\ preferences.ageGroup \notin getAvailableAgeGroups
    \/ /\ Has(preferences, "preferredEnvironment")
       /\ preferences.preferredEnvironment \notin validEnvironments
    \/ Has(preferences, "priceRange") /\ preferences.priceRange \notin validPriceRanges
    \/ /\ Has(preferences, "timePreference")
       /\ preferences.timePreference \notin timePreferences

\* C11: a POST or PUT whose partial record carries a value outside the published
\* enumeration of interests, ageGroup, preferredEnvironment, priceRange or
\* timePreference is answered with 400 and leaves the preference store unchanged.
C11_UnknownEnumRejected ==
    [][ ( /\ prefsOp'.op \in {"post", "put"}
          /\ prefsOp' # prefsOp \/ userPrefs' # userPrefs
          /\ OutsideEnumeration(prefsOp'.partial) )
        => /\ prefsOp'.status = 400
           /\ userPrefs' = userPrefs ]_vars

(***************************************************************************)
(* The cache operations, called one after another                          *)
(***************************************************************************)
\* the bundles the adapter can hand to cacheAreaData for a key
FailureCases == { {}, {"restaurants"} }

BundlesFor(cacheKey, time) ==
    { getAreaInsights(c, Replies(ProviderResults, failed), time).value :
        c \in { a \in AreaCoords : generateCacheKey(a, defaultKeyRadius) = cacheKey },
        failed \in FailureCases }

InitCache ==
    /\ now = 0
    /\ score = ScoreIdle
    /\ keys = KeysIdle
    /\ tags = TagsIdle
    /\ client = ClientIdle
    /\ primary = PrimaryIdle
    /\ PrefsIdle
    /\ CacheIdle
    /\ FlowIdle

CachePut(cacheKey, areaData, writeFails) ==
    /\ areaCache' = cacheAreaData(areaCache, cacheKey, areaData, writeFails, now)
    /\ cacheOp' = [ op |-> "put", key |-> cacheKey, value |-> areaData,
                    failed |-> IF writeFails THEN "write" ELSE "none" ]
    /\ UNCHANGED <<now, engineVars, prefVars, flowVars>>

CacheGet(cacheKey, readFails, deleteFails) ==
    LET got == getCachedAreaData(areaCache, cacheKey, readFails, deleteFails, now)
        deleting == /\ ~readFails /\ areaCache[cacheKey].exists
                    /\ Expired(areaCache[cacheKey].data, now)
    IN  /\ deleteFails => deleting
        /\ areaCache' = got.store
        /\ cacheOp' = [ op |-> "get", key |-> cacheKey, value |-> got.value,
                        failed |-> IF readFails THEN "read"
                                   ELSE IF deleteFails THEN "delete" ELSE "none" ]
        /\ UNCHANGED <<now, engineVars, prefVars, flowVars>>

CacheTouch(cacheKey) ==
    /\ areaCache' = updateCacheAccess(areaCache, cacheKey, now)
    /\ cacheOp' = [op |-> "touch", key |-> cacheKey, value |-> Null, failed |-> "none"]
    /\ UNCHANGED <<now, engineVars, prefVars, flowVars>>

\* the periodic maintenance task calls cleanupExpiredCache()
CacheCleanup(queryFails, commitFails) ==
    LET got == cleanupExpiredCache(areaCache, queryFails, commitFails, now)
        expired == { k \in AreaKeys : areaCache[k].exists
                                       /\ areaCache[k].data.cachedAt < now - cacheTTL }
    IN  /\ commitFails => (~queryFails /\ expired # {})
        /\ areaCache' = got.store
        /\ cacheOp' = [ op |-> "cleanup", key |-> <<>>,
                        value |-> [deleteCount |-> got.value],
                        failed |-> IF queryFails THEN "read"
                                   ELSE IF commitFails THEN "delete" ELSE "none" ]
        /\ UNCHANGED <<now, engineVars, prefVars, flowVars>>

TickCache ==
    /\ Tick
    /\ UNCHANGED <<engineVars, prefVars, cacheVars, flowVars>>

NextCache ==
    \/ \E k \in AreaKeys, f \in BOOLEAN : \E v \in BundlesFor(k, now) : CachePut(k, v, f)
    \/ \E k \in AreaKeys, r \in BOOLEAN, d \in BOOLEAN : CacheGet(k, r, d)
    \/ \E k \in AreaKeys : CacheTouch(k)
    \/ \E q \in BOOLEAN, c \in BOOLEAN : CacheCleanup(q, c)
    \/ TickCache

SpecCache == InitCache /\ [][NextCache]_vars

(***************************************************************************)
(* C4                                                                      *)
(***************************************************************************)
\* the step is a getCachedAreaData(k) that returns
GetStep(k) == cacheOp'.op = "get" /\ cacheOp'.key = k /\ now' = now

\* the step is a cacheAreaData(k, v) whose write succeeds
PutStep(k) ==
    cacheOp'.op = "put" /\ cacheOp'.key = k /\ cacheOp'.failed = "none" /\ now' = now

Age(entry) == now - entry.cachedAt

\* C4 as stated: a getCachedAreaData(k) on the entry a successful
\* cacheAreaData(k, v) left in the store returns v while the entry's age is at
\* most the TTL and returns absent once the age exceeds it.
C4_RoundTrip ==
    [][ \A k \in AreaKeys :
          (GetStep(k) /\ areaCache[k].exists)
          => IF Age(areaCache[k].data) <= cacheTTL
             THEN cacheOp'.value = areaCache[k].data.areaData
             ELSE cacheOp'.value = Null ]_vars

\* C4 with the store failure it leaves out: a successful cacheAreaData(k, v)
\* stores v with cachedAt = now; a getCachedAreaData(k) on that entry whose read
\* of the store succeeds returns v while the age is at most the TTL and absent
\* once the age exceeds it; a get whose read fails returns absent at any age.
C4_RoundTripWhenReadSucceeds ==
    [][ \A k \in AreaKeys :
          /\ PutStep(k)
             => /\ areaCache'[k].exists
                /\ areaCache'[k].data.areaData = cacheOp'.value
                /\ areaCache'[k].data.cachedAt = now
          /\ (GetStep(k) /\ areaCache[k].exists)
             => IF cacheOp'.failed = "read" THEN cacheOp'.value = Null
                ELSE IF Age(areaCache[k].data) <= cacheTTL
                     THEN cacheOp'.value = areaCache[k].data.areaData
                     ELSE cacheOp'.value = Null ]_vars

\* a get returned the payload of an entry whose age is exactly the TTL
C4_Witness ==
    /\ cacheOp.op = "get" /\ cacheOp.failed = "none"
    /\ areaCache[cacheOp.key].exists
    /\ Age(areaCache[cacheOp.key].data) = cacheTTL
    /\ cacheOp.value = areaCache[cacheOp.key].data.areaData
    /\ cacheOp.value.restaurants = <<>>

(***************************************************************************)
(* C5                                                                      *)
(***************************************************************************)
\* C5 as stated: a getCachedAreaData that finds an entry older than the TTL
\* deletes it and returns absent; one that finds an entry of age at most the
\* TTL returns its payload and leaves the entry unchanged.
C5_LazyExpiry ==
    [][ \A k \in AreaKeys :
          (GetStep(k) /\ areaCache[k].exists /\ cacheOp'.failed # "read")
          => IF Age(areaCache[k].data) > cacheTTL
             THEN cacheOp'.value = Null /\ ~areaCache'[k].exists
             ELSE /\ cacheOp'.value = areaCache[k].data.areaData
                  /\ areaCache' = areaCache ]_vars

\* C5 with the store failure it leaves out: the expired entry is deleted when
\* the delete succeeds and stays in the store, unchanged, when the delete
\* fails; absent is returned in both cases, and no other entry changes.
C5_LazyExpiryWhenDeleteSucceeds ==
    [][ \A k \in AreaKeys :
          (GetStep(k) /\ areaCache[k].exists /\ cacheOp'.failed # "read")
          => IF Age(areaCache[k].data) > cacheTTL
             THEN /\ cacheOp'.value = Null
                  /\ areaCache' = IF cacheOp'.failed = "delete" THEN areaCache
                                  ELSE [areaCache EXCEPT ![k] = NoDoc]
             ELSE /\ cacheOp'.value = areaCache[k].data.areaData
                  /\ areaCache' = areaCache ]_vars

\* a get found an expired entry, deleted it and returned absent, while the
\* entry of the other key stayed
C5_Witness ==
    /\ cacheOp.op = "get" /\ cacheOp.failed = "none" /\ cacheOp.value = Null
    /\ now > cacheTTL
    /\ ~areaCache[cacheOp.key].exists
    /\ \E k \in AreaKeys : areaCache[k].exists /\ Age(areaCache[k].data) <= cacheTTL

(***************************************************************************)
(* Insights orchestrator (AreaInsightsController.getAreaInsights)          *)
(*                                                                         *)
(* A value of the request body is tagged with its typeof; a field that is  *)
(* missing is undefined.                                                   *)
(***************************************************************************)
Num(n) == [typeof |-> "number", value |-> n]
Str(t) == [typeof |-> "string", text |-> t]
typeof(o, f) == IF Has(o, f) THEN o[f].typeof ELSE "undefined"

UnitsPerDegree == 1000 * UnitsPerMilli

Invalid(message) == [isValid |-> FALSE, message |-> message]

\* the range check written with >= and <=: the bounds are rejected
validateRequestExclusive(body) ==
    IF body = Null THEN Invalid("Request body is required")
    ELSE IF ~Has(body, "coords") \/ body.coords = Null
         THEN Invalid("Coordinates are required")
    ELSE IF typeof(body.coords, "lat") # "number" \/ typeof(body.coords, "lng") # "number"
         THEN Invalid("Coordinates must be valid numbers")
    ELSE IF \/ body.coords.lat.value <= -90 * UnitsPerDegree
            \/ body.coords.lat.value >= 90 * UnitsPerDegree
         THEN Invalid("Latitude must be between -90 and 90")
    ELSE IF \/ body.coords.lng.value <= -180 * UnitsPerDegree
            \/ body.coords.lng.value >= 180 * UnitsPerDegree
         THEN Invalid("Longitude must be between -180 and 180")
    ELSE [isValid |-> TRUE, message |-> ""]

validateRequest(body) ==
    IF body = Null THEN Invalid("Request body is required")
    ELSE IF ~Has(body, "coords") \/ body.coords = Null
         THEN Invalid("Coordinates are required")
    ELSE IF typeof(body.coords, "lat") # "number" \/ typeof(body.coords, "lng") # "number"
         THEN Invalid("Coordinates must be valid numbers")
    ELSE IF \/ body.coords.lat.value < -90 * UnitsPerDegree
            \/ body.coords.lat.value > 90 * UnitsPerDegree
         THEN Invalid("Latitude must be between -90 and 90")
    ELSE IF \/ body.coords.lng.value < -180 * UnitsPerDegree
            \/ body.coords.lng.value > 180 * UnitsPerDegree
         THEN Invalid("Longitude must be between -180 and 180")
    ELSE [isValid |-> TRUE, message |-> ""]

\* const { coords, userId, filters = {} } = req.body
coordsOf(body) == [lat |-> body.coords.lat.value, lng |-> body.coords.lng.value]
userIdOf(body) == IF Has(body, "userId") THEN body.userId ELSE NoUser
filtersOf(body) == IF Has(body, "filters") THEN body.filters ELSE <<>>

\* { currentTime: new Date(), ...filters }
contextOf(body, time) == Spread([currentTime |-> Date(time % 24)], filtersOf(body))

personalizedData(areaData, userPreferences, context) ==
    [ c \in CategorySet |-> personalizePlaces(areaData[c], userPreferences, context) ]

allPlaces(data) ==
    data.landmarks \o data.restaurants \o data.attractions
        \o data.entertainment \o data.shopping

topLimit == 10
categoryLimit ==
    [landmarks |-> 5, restaurants |-> 5, attractions |-> 5, entertainment |-> 3, shopping |-> 3]

\* the cross-category list without its cap
topRecommendationsUncapped(data, userPreferences, context) ==
    personalizePlaces(allPlaces(data), userPreferences, context)

topRecommendations(data, userPreferences, context) ==
    Slice(personalizePlaces(allPlaces(data), userPreferences, context), topLimit)

\* generateHourlyActivity, generateRecommendationsSummary and
\* getPopularCategories read place.types.includes of the top recommendations:
\* a place without types makes them throw, and the handler's catch answers 500
SummaryRaises(places) == \E i \in 1..Len(places) : ~Has(places[i], "types")

\* the popular_areas collection after trackPopularArea; time is the clock at
\* the call, when popularAreaData is built.  For an area that has a document
\* the update raises as in updateCacheAccess (admin is not bound) and the
\* catch swallows it.
trackPopularArea(store, coords, searchData, storeFails, time) ==
    LET areaId == generateCacheKey(coords, popularAreaRadius)
    IN  IF storeFails \/ store[areaId].exists THEN store
        ELSE [ store EXCEPT ![areaId] =
                 Doc([ coordinates |-> coords, searchCount |-> 1,
                       lastSearched |-> time,
                       averageUserInterests |-> searchData.userInterests,
                       createdAt |-> time ]) ]

\* the analytics collection after logAnalyticsEvent; time is the clock at the
\* call, when analyticsEntry is built
logAnalyticsEvent(store, eventType, eventData, userId, storeFails, time) ==
    IF storeFails THEN store
    ELSE Append(store, [ eventType |-> eventType, eventData |-> eventData,
                         userId |-> userId, timestamp |-> time ])

(***************************************************************************)
(* Insights requests, handled one after another; the writes a request      *)
(* starts without awaiting them may still be pending while the next        *)
(* request is handled                                                      *)
(***************************************************************************)
\* the record a POST of these preferences left in the store
StoredPreferences(u) ==
    preferencesToSave(u, [ interests |-> <<"food", "shopping">>, ageGroup |-> "young",
                           priceRange |-> "budget" ], 0)

TagCoords(c) == [lat |-> Num(c.lat), lng |-> Num(c.lng)]
Corner == [lat |-> 90 * UnitsPerDegree, lng |-> 180 * UnitsPerDegree]
NearCorner == [lat |-> 8999970, lng |-> 17999960]

ValidBodies ==
    { [coords |-> TagCoords(c)] : c \in AreaCoords }
    \cup { [coords |-> TagCoords(Corner), userId |-> "u1"],
           [coords |-> TagCoords(NearCorner), filters |-> [currentTime |-> NotADate]] }

InvalidBodies ==
    { Null,
      [userId |-> "u1"],
      [coords |-> Null],
      [coords |-> [lat |-> Str("90"), lng |-> Num(0)]],
      [coords |-> [lat |-> Num(0)]],
      [coords |-> [lat |-> Num(Corner.lat + 1), lng |-> Num(0)]],
      [coords |-> [lat |-> Num(-Corner.lat - 1), lng |-> Num(0)]],
      [coords |-> [lat |-> Num(0), lng |-> Num(Corner.lng + 1)]],
      [coords |-> [lat |-> Num(0), lng |-> Num(-Corner.lng - 1)]] }

InsightsBodies == ValidBodies \cup InvalidBodies

\* the first request of a session
FirstBodies ==
    { [coords |-> TagCoords(Corner)], [coords |-> TagCoords(Corner), userId |-> "u1"] }

\* the lookups that fail in one fan-out
LookupFailures == SUBSET CategorySet

ProviderWorlds == {ProviderResults, MalformedResults}

\* what is recorded of an answered request
Answer(req, status, code, userPreferences, personalized, categories, top) ==
    [ body |-> req.body, status |-> status, code |-> code, at |-> now,
      fromCache |-> req.fromCache, cacheKey |-> req.cacheKey,
      storeFailed |-> req.storeFailed, prefsFailed |-> req.prefsFailed,
      lookedUp |-> req.lookedUp,
      results |-> req.results, failed |-> req.failed, areaData |-> req.areaData,
      userPreferences |-> userPreferences, personalizedData |-> personalized,
      categories |-> categories,
      topRecommendations |-> top ]

\* the cache as earlier requests for the corner's cell can have left it
EarlierBundles ==
    { getAreaInsights(Corner, Replies(ProviderResults, failed), 0).value :
        failed \in FailureCases }

EarlierCaches ==
    { [k \in AreaKeys |-> NoDoc] }
    \cup { cacheAreaData([k \in AreaKeys |-> NoDoc],
                         generateCacheKey(Corner, defaultKeyRadius), v, FALSE, 0) :
             v \in EarlierBundles }

FlowStart ==
    /\ now = 0
    /\ score = ScoreIdle
    /\ keys = KeysIdle
    /\ tags = TagsIdle
    /\ client = ClientIdle
    /\ primary = PrimaryIdle
    /\ userPrefs = [u \in Users |-> Doc(StoredPreferences(u))]
    /\ prefsOp = PrefsOpIdle
    /\ put = PutIdle
    /\ deleted = {}
    /\ cacheOp = CacheOpIdle
    /\ request = RequestIdle
    /\ served = <<>>
    /\ popularAreas = [a \in PopularAreaIds |-> NoDoc]
    /\ analytics = <<>>
    /\ background = {}
    /\ calls = CallsIdle

\* one request of any kind, on a cache that is empty or holds an entry
InitInsights ==
    /\ FlowStart
    /\ areaCache \in EarlierCaches
    /\ arrivals \in { <<b>> : b \in InsightsBodies }

\* two valid requests, on an empty cache
InitSession ==
    /\ FlowStart
    /\ areaCache = [k \in AreaKeys |-> NoDoc]
    /\ arrivals \in { <<a, b>> : a \in FirstBodies, b \in ValidBodies }

\* lines 117-132: validation, and the cache key of a valid request
Receive ==
    /\ request.pc = "idle"
    /\ arrivals # <<>>
    /\ arrivals' = Tail(arrivals)
    /\ LET body == Head(arrivals) IN
       IF ~validateRequest(body).isValid
       THEN /\ served' = Append(served, Answer([RequestIdle EXCEPT !.body = body], 400,
                                               "VALIDATION_ERROR", <<>>, <<>>, <<>>, <<>>))
            /\ UNCHANGED request
       ELSE /\ request' = [ RequestIdle EXCEPT
                              !.pc = "cacheGet", !.body = body,
                              !.cacheKey = generateCacheKey(coordsOf(body), defaultKeyRadius) ]
            /\ UNCHANGED served
    /\ UNCHANGED <<now, engineVars, prefVars, cacheVars, popularAreas, analytics,
                   background, calls>>

\* line 135: await getCachedAreaData(cacheKey)
CacheRead(readFails, deleteFails) ==
    /\ request.pc = "cacheGet"
    /\ LET got == getCachedAreaData(areaCache, request.cacheKey, readFails, deleteFails, now)
           deleting == /\ ~readFails /\ areaCache[request.cacheKey].exists
                       /\ Expired(areaCache[request.cacheKey].data, now)
       IN  /\ deleteFails => deleting
           /\ areaCache' = got.store
           /\ request' = [ request EXCEPT
                             !.pc = IF got.value = Null THEN "lookup" ELSE "touch",
                             !.areaData = got.value,
                             !.fromCache = got.value # Null,
                             !.storeFailed = readFails \/ deleteFails ]
    /\ calls' = [calls EXCEPT !.cacheReads = @ + 1]
    /\ UNCHANGED <<now, engineVars, prefVars, cacheOp, arrivals, served, popularAreas,
                   analytics, background>>

\* a fan-out that issues every search a second time
LookupRetried(results, failed) ==
    /\ request.pc = "lookup"
    /\ LET got == getAreaInsights(coordsOf(request.body), Replies(results, failed), now)
           looked == [ request EXCEPT !.lookedUp = TRUE, !.results = results,
                                      !.failed = failed ]
       IN  IF got.threw
           THEN /\ served' = Append(served, Answer(looked, 500, "INTERNAL_SERVER_ERROR",
                                                   <<>>, <<>>, <<>>, <<>>))
                /\ request' = RequestIdle
           ELSE /\ request' = [looked EXCEPT !.pc = "cacheWrite", !.areaData = got.value]
                /\ UNCHANGED served
    /\ calls' = [calls EXCEPT !.lookups = @ + 2 * Len(Categories)]
    /\ UNCHANGED <<now, engineVars, prefVars, cacheVars, arrivals, popularAreas,
                   analytics, background>>

\* line 143: await placesService.getAreaInsights(coords); results is what the
\* provider finds, failed the categories whose search fails
Lookup(results, failed) ==
    /\ request.pc = "lookup"
    /\ LET got == getAreaInsights(coordsOf(request.body), Replies(results, failed), now)
           looked == [ request EXCEPT !.lookedUp = TRUE, !.results = results,
                                      !.failed = failed ]
       IN  IF got.threw
           THEN /\ served' = Append(served, Answer(looked, 500, "INTERNAL_SERVER_ERROR",
                                                   <<>>, <<>>, <<>>, <<>>))
                /\ request' = RequestIdle
           ELSE /\ request' = [looked EXCEPT !.pc = "cacheWrite", !.areaData = got.value]
                /\ UNCHANGED served
    /\ calls' = [calls EXCEPT !.lookups = @ + Len(Categories)]
    /\ UNCHANGED <<now, engineVars, prefVars, cacheVars, arrivals, popularAreas,
                   analytics, background>>

\* line 146: await cacheAreaData(cacheKey, areaData)
CacheWrite(writeFails) ==
    /\ request.pc = "cacheWrite"
    /\ areaCache' = cacheAreaData(areaCache, request.cacheKey, request.areaData,
                                  writeFails, now)
    /\ request' = [ request EXCEPT !.pc = "respond",
                                   !.storeFailed = request.storeFailed \/ writeFails ]
    /\ calls' = [calls EXCEPT !.cacheWrites = @ + 1]
    /\ UNCHANGED <<now, engineVars, prefVars, cacheOp, arrivals, served, popularAreas,
                   analytics, background>>

\* line 149: await updateCacheAccess(cacheKey)
Touch ==
    /\ request.pc = "touch"
    /\ areaCache' = updateCacheAccess(areaCache, request.cacheKey, now)
    /\ request' = [request EXCEPT !.pc = "respond"]
    /\ calls' = [calls EXCEPT !.touches = @ + 1]
    /\ UNCHANGED <<now, engineVars, prefVars, cacheOp, arrivals, served, popularAreas,
                   analytics, background>>

\* lines 153-267: the preferences, the six personalizePlaces calls, the
\* response, the two writes that are not awaited, and the catch
Respond(readFails) ==
    /\ request.pc = "respond"
    /\ LET body == request.body
           userId == userIdOf(body)
           got == getUserPreferences(userPrefs, userId, readFails, now)
           context == contextOf(body, now)
           data == personalizedData(request.areaData, got.value, context)
           top == topRecommendations(data, got.value, context)
           categories == [c \in CategorySet |-> Slice(data[c], categoryLimit[c])]
           raised == got.threw \/ SummaryRaises(top)
           read == [request EXCEPT !.prefsFailed = readFails]
           id == Len(served) + 1
       IN  /\ readFails => userId # NoUser
           /\ IF raised
              THEN /\ served' = Append(served, Answer(read, 500, "INTERNAL_SERVER_ERROR",
                                                      got.value, data, <<>>, <<>>))
                   /\ UNCHANGED background
              ELSE /\ served' = Append(served, Answer(read, 200, "", got.value,
                                                      data, categories, top))
                   /\ background' = background \cup
                        { [ task |-> "trackPopularArea", id |-> id, calledAt |-> now,
                            coords |-> coordsOf(body),
                            searchData |-> [ userInterests |-> got.value.interests,
                                             resultCount |-> Len(allPlaces(data)) ] ],
                          [ task |-> "logAnalyticsEvent", id |-> id, calledAt |-> now,
                            userId |-> userId,
                            eventData |-> [ coordinates |-> coordsOf(body),
                                            resultCount |-> Len(allPlaces(data)),
                                            fromCache |-> request.fromCache ] ] }
    /\ request' = RequestIdle
    /\ calls' = [calls EXCEPT !.preferenceReads = @ + 1]
    /\ UNCHANGED <<now, engineVars, prefVars, cacheVars, arrivals, popularAreas, analytics>>

\* a trackPopularArea the handler waits for: its failure fails the request
TrackPopularAreaAwaited(t, storeFails) ==
    /\ t \in background /\ t.task = "trackPopularArea"
    /\ popularAreas' = trackPopularArea(popularAreas, t.coords, t.searchData, storeFails,
                                     t.calledAt)
    /\ background' = background \ {t}
    /\ served' = IF storeFails
                 THEN [served EXCEPT ![t.id].status = 500,
                                     ![t.id].code = "INTERNAL_SERVER_ERROR"]
                 ELSE served
    /\ UNCHANGED <<now, engineVars, prefVars, cacheVars, arrivals, request, analytics,
                   calls>>

\* a pending trackPopularArea runs to its end
TrackPopularArea(t, storeFails) ==
    /\ t \in background /\ t.task = "trackPopularArea"
    /\ popularAreas' = trackPopularArea(popularAreas, t.coords, t.searchData, storeFails,
                                     t.calledAt)
    /\ background' = background \ {t}
    /\ UNCHANGED <<now, engineVars, prefVars, cacheVars, arrivals, request, served,
                   analytics, calls>>

\* a pending logAnalyticsEvent runs to its end
LogAnalyticsEvent(t, storeFails) ==
    /\ t \in background /\ t.task = "logAnalyticsEvent"
    /\ analytics' = logAnalyticsEvent(analytics, "area_search", t.eventData, t.userId,
                                      storeFails, t.calledAt)
    /\ background' = background \ {t}
    /\ UNCHANGED <<now, engineVars, prefVars, cacheVars, arrivals, request, served,
                   popularAreas, calls>>

\* a request is answered within seconds and the clock's step is hours: the
\* clock moves between requests
TickFlow ==
    /\ request.pc = "idle"
    /\ Tick
    /\ UNCHANGED <<engineVars, prefVars, cacheVars, flowVars>>

NextInsights ==
    \/ Receive
    \/ \E r \in BOOLEAN, d \in BOOLEAN : CacheRead(r, d)
    \/ \E w \in ProviderWorlds, f \in LookupFailures : Lookup(w, f)
    \/ \E f \in BOOLEAN : CacheWrite(f)
    \/ Touch
    \/ \E f \in BOOLEAN : Respond(f)
    \/ \E t \in background, f \in BOOLEAN : TrackPopularArea(t, f)
    \/ \E t \in background, f \in BOOLEAN : LogAnalyticsEvent(t, f)
    \/ TickFlow

\* one request from any state of the cache, with any outcome of the lookups
SpecInsights == InitInsights /\ [][NextInsights]_vars

NextSession ==
    \/ Receive
    \/ \E r \in BOOLEAN, d \in BOOLEAN : CacheRead(r, d)
    \/ \E f \in FailureCases : Lookup(ProviderResults, f)
    \/ \E f \in BOOLEAN : CacheWrite(f)
    \/ Touch
    \/ \E f \in BOOLEAN : Respond(f)
    \/ \E t \in background : TrackPopularArea(t, FALSE)
    \/ \E t \in background : LogAnalyticsEvent(t, FALSE)
    \/ served # <<>> /\ TickFlow

\* a first and a second request; the clock counts from the first
Spec == InitSession /\ [][NextSession]_vars

(***************************************************************************)
(* C6                                                                      *)
(***************************************************************************)
\* every place of the bundle has its list of types, as the provider's place
\* records do
TypedPlaces(areaData) ==
    \A c \in CategorySet : \A i \in 1..Len(areaData[c]) : Has(areaData[c][i], "types")

\* C6: whatever subset of the five category lookups fails, getAreaInsights
\* returns normally, with an empty list for each failed category and the first
\* lookupLimit results of the provider for each other category, and the
\* orchestrator goes on to answer the request; the answer is a success
\* response when the places of the bundle carry their types.
C6_PartialFailureTolerated ==
    /\ request.lookedUp
       => /\ request.pc \in {"cacheWrite", "respond"}
          /\ request.areaData # Null
    /\ \A i \in 1..Len(served) :
         served[i].lookedUp
         => /\ served[i].areaData # Null
            /\ \A c \in CategorySet :
                 served[i].areaData[c] =
                     IF c \in served[i].failed THEN <<>>
                     ELSE Slice(served[i].results[c], lookupLimit)
            /\ TypedPlaces(served[i].areaData) => served[i].status = 200

\* a request answered with success although the restaurant lookup timed out
\* and the shopping lookup was refused, the landmarks cut to lookupLimit
C6_Witness ==
    \E i \in 1..Len(served) :
        /\ served[i].lookedUp
        /\ served[i].failed = {"restaurants", "shopping"}
        /\ served[i].status = 200
        /\ served[i].areaData.restaurants = <<>>
        /\ Len(served[i].results.landmarks) > lookupLimit
        /\ Len(served[i].areaData.landmarks) = lookupLimit
        /\ served[i].categories.attractions # <<>>

(***************************************************************************)
(* C7                                                                      *)
(***************************************************************************)
\* the three-decimal value nearest to a coordinate, in thousandths of a degree
NearestMilli(x) ==
    CHOOSE g \in ((x \div UnitsPerMilli) - 1)..((x \div UnitsPerMilli) + 1) :
        Abs(x - UnitsPerMilli * g) < HalfCell

SameRoundingCell(a, b) ==
    /\ NearestMilli(a.lat) = NearestMilli(b.lat)
    /\ NearestMilli(a.lng) = NearestMilli(b.lng)

\* the cache store and the provider worked while the request was handled
Working(answer) == ~answer.storeFailed /\ answer.failed = {}

\* C7: on an empty cache the first request is answered with fromCache =
\* false; with the store and the provider working, a second request within the
\* TTL for a coordinate of the same rounding cell is answered with fromCache =
\* true; a request without userId is ranked with the default preferences.
C7_RepeatedRequestIsCacheHit ==
    /\ [](Len(served) >= 1 => ~served[1].fromCache)
    /\ []( ( /\ Len(served) >= 2
             /\ Working(served[1]) /\ Working(served[2])
             /\ SameRoundingCell(coordsOf(served[1].body), coordsOf(served[2].body))
             /\ served[2].at - served[1].at <= cacheTTL )
           => served[2].fromCache )
    /\ [][ LET answer == served'[Len(served')]
               context == contextOf(answer.body, answer.at)
           IN  (Len(served') = Len(served) + 1 /\ ~Has(answer.body, "userId"))
               => /\ answer.userPreferences = defaultPreferences
                  /\ answer.status = 200
                     => answer.topRecommendations =
                          topRecommendations(
                              personalizedData(answer.areaData, defaultPreferences, context),
                              defaultPreferences, context) ]_vars

\* a miss at the corner, then, exactly one TTL later, a hit for another
\* coordinate of the corner's cell, both without userId
C7_Witness ==
    /\ Len(served) = 2
    /\ served[1].status = 200 /\ served[2].status = 200
    /\ ~Has(served[1].body, "userId") /\ ~Has(served[2].body, "userId")
    /\ coordsOf(served[1].body) = Corner /\ coordsOf(served[2].body) = NearCorner
    /\ ~served[1].fromCache /\ served[2].fromCache
    /\ served[2].at - served[1].at = cacheTTL
    /\ served[2].topRecommendations # <<>>

(***************************************************************************)
(* C8                                                                      *)
(***************************************************************************)
InRange(v, degrees) == -degrees * UnitsPerDegree <= v /\ v <= degrees * UnitsPerDegree

\* the body has coords whose lat and lng are numbers within the ranges
Acceptable(body) ==
    /\ body # Null
    /\ Has(body, "coords") /\ body.coords # Null
    /\ typeof(body.coords, "lat") = "number" /\ typeof(body.coords, "lng") = "number"
    /\ InRange(body.coords.lat.value, 90)
    /\ InRange(body.coords.lng.value, 180)

\* the step answers a request with 400
Rejecting == Len(served') = Len(served) + 1 /\ served'[Len(served')].status = 400

\* C8: a request is answered 400 VALIDATION_ERROR exactly when its body or
\* coords is missing, lat or lng is no number or lies outside [-90, 90] or
\* [-180, 180], the bounds themselves being accepted; a rejected request issues
\* no cache read, lookup or cache write and starts no popularity or analytics
\* write, and leaves the stores as they were.
C8_ValidationBoundary ==
    /\ [](request.pc # "idle" => Acceptable(request.body))
    /\ [](\A i \in 1..Len(served) :
            /\ served[i].status = 400 <=> ~Acceptable(served[i].body)
            /\ served[i].status = 400
               => /\ served[i].code = "VALIDATION_ERROR"
                  /\ calls = CallsIdle
                  /\ background = {} /\ analytics = <<>>
                  /\ \A a \in PopularAreaIds : ~popularAreas[a].exists)
    /\ [][ Rejecting => /\ UNCHANGED <<areaCache, popularAreas, analytics, background, calls>>
                        /\ request' = RequestIdle ]_vars

\* a latitude one unit beyond 90 degrees was rejected while the cache held an
\* entry, and nothing was read or written
C8_Witness ==
    /\ Len(served) = 1
    /\ served[1].status = 400
    /\ served[1].body = [coords |-> [lat |-> Num(Corner.lat + 1), lng |-> Num(0)]]
    /\ \E k \in AreaKeys : areaCache[k].exists
    /\ calls = CallsIdle

(***************************************************************************)
(* C12                                                                     *)
(***************************************************************************)
\* the context the orchestrator handed to the engine for an answered request
ContextOfAnswer(answer) == contextOf(answer.body, answer.at)

\* scoring raised inside personalizePlaces for one of the category lists
EngineFellBack(answer, c) ==
    ScoringRaises(answer.areaData[c], answer.userPreferences, ContextOfAnswer(answer))

\* C12: when scoring raises inside personalizePlaces for a category list of an
\* insights request, the engine returns the first defaultMaxResults places of
\* that list, in input order and without score fields, and the request is
\* answered with success.
C12_EngineFailureKeepsRequest ==
    \A i \in 1..Len(served) :
        LET answer == served[i]
        IN  ( /\ answer.areaData # Null
              /\ \E c \in CategorySet : EngineFellBack(answer, c) )
            => /\ answer.status = 200
               /\ \A c \in CategorySet :
                    EngineFellBack(answer, c)
                    => answer.categories[c] =
                           Slice(Slice(answer.areaData[c], defaultMaxResults),
                                 categoryLimit[c])

(***************************************************************************)
(* An insights request followed by calls of the preference endpoints, with *)
(* every store operation free to fail                                      *)
(***************************************************************************)
StoreBodies == { b \in ValidBodies : Has(b, "userId") }

InitStores ==
    /\ FlowStart
    /\ areaCache \in EarlierCaches
    /\ arrivals \in { <<b>> : b \in StoreBodies }

\* the request has been answered and its two background writes have ended
Answered == served # <<>> /\ request.pc = "idle" /\ background = {}

NextStores ==
    \/ Receive
    \/ \E r \in BOOLEAN, d \in BOOLEAN : CacheRead(r, d)
    \/ \E f \in FailureCases : Lookup(ProviderResults, f)
    \/ \E f \in BOOLEAN : CacheWrite(f)
    \/ Touch
    \/ \E f \in BOOLEAN : Respond(f)
    \/ \E t \in background, f \in BOOLEAN : TrackPopularArea(t, f)
    \/ \E t \in background, f \in BOOLEAN : LogAnalyticsEvent(t, f)
    \/ served = <<>> /\ TickFlow
    \/ Answered /\ \E u \in Users, f \in BOOLEAN : GetPreferences(u, f)
    \/ Answered /\ \E u \in Users, f \in BOOLEAN :
                      PostPreferences([preferences |-> SeniorOnly, userId |-> u], f)
    \/ Answered /\ \E u \in Users, f \in BOOLEAN : PutRead(u, SeniorOnly, f)
    \/ Answered /\ \E f \in BOOLEAN : PutWrite(f)
    \/ Answered /\ \E u \in Users, f \in BOOLEAN : DeletePreferences(u, f)

SpecStores == InitStores /\ [][NextStores]_vars

(***************************************************************************)
(* C13                                                                     *)
(***************************************************************************)
\* an insights request is never failed by the cache store or by the preference
\* store: a failed cache read is a miss, a failed cache write or touch is
\* ignored, a failed preference read gives the default record
InsightsDegrade ==
    \A i \in 1..Len(served) :
        LET answer == served[i]
        IN  answer.status # 400
            => /\ TypedPlaces(answer.areaData) => answer.status = 200
               /\ answer.storeFailed => ~answer.fromCache /\ answer.lookedUp
               /\ answer.prefsFailed => answer.userPreferences = defaultPreferences

\* a preference read that fails is answered with the default record
ReadDegrades ==
    (prefsOp.op = "get" /\ prefsOp.failed)
    => ~prefsOp.threw /\ prefsOp.value = defaultPreferences

\* C13 as stated: no failure of the cache store or of the preference store fails
\* a request, the preference deletion alone excepted.
C13_OnlyDeletionSurfaces ==
    /\ InsightsDegrade
    /\ ReadDegrades
    /\ (prefsOp.op = "delete" /\ prefsOp.failed) => prefsOp.status = 500
    /\ prefsOp.op \in {"post", "put"} => prefsOp.status # 500

\* C13: a failure of the cache store or of a preference read never fails a
\* request (a failed cache read is a miss, a failed cache write or touch is
\* ignored, a failed preference read gives the default record); a failed
\* preference deletion is answered with 500, and so is a failed preference
\* write of a POST or PUT, which are failed by nothing else.
C13_StoreFailuresDegradeExceptWrites ==
    /\ InsightsDegrade
    /\ ReadDegrades
    /\ (prefsOp.op = "delete" /\ prefsOp.failed) => prefsOp.status = 500
    /\ prefsOp.op \in {"post", "put"}
       => (prefsOp.status = 500 <=> prefsOp.failed)

\* a request answered with success although a cache operation and the
\* preference read failed, and after it a POST failed by its write
C13_Witness ==
    /\ \E i \in 1..Len(served) :
          /\ served[i].status = 200
          /\ served[i].storeFailed
          /\ served[i].prefsFailed
    /\ prefsOp.op = "post"
    /\ prefsOp.failed
    /\ prefsOp.status = 500

(***************************************************************************)
(* C14                                                                     *)
(***************************************************************************)
\* the background writes that request i started and that have not ended
Pending(i, tasks) == { t.task : t \in { b \in tasks : b.id = i } }

\* C14: the popular-area write and the analytics write of an insights request
\* are not awaited: both are still pending when the success response is sent,
\* and no later step, whether a write succeeds, fails or stays pending, changes
\* the status or the body of a response.
C14_FireAndForget ==
    [][ /\ Len(served') >= Len(served)
        /\ \A i \in 1..Len(served) : served'[i] = served[i]
        /\ ( Len(served') > Len(served) /\ served'[Len(served')].status = 200 )
           => Pending(Len(served'), background')
                  = {"trackPopularArea", "logAnalyticsEvent"} ]_vars

\* a success response whose popular-area write failed while its analytics write
\* has not ended
C14_Witness ==
    \E i \in 1..Len(served) :
        /\ served[i].status = 200
        /\ Pending(i, background) = {"logAnalyticsEvent"}
        /\ analytics = <<>>
        /\ \A a \in PopularAreaIds : ~popularAreas[a].exists

(***************************************************************************)
(* C15                                                                     *)
(***************************************************************************)
\* the tags that the interest table gives for a list of interests, as a set
RelevantTags(interests) ==
    UNION { IF Has(interestMapping, interests[k])
            THEN { interestMapping[interests[k]][n] :
                     n \in 1..Len(interestMapping[interests[k]]) }
            ELSE { interests[k] } : k \in 1..Len(interests) }

\* the terms of the sum besides the rating, the reviews and the interests
OtherTerms(place) ==
    LET agePrefs == IF Has(ageGroupPreferences, score.userPreferences.ageGroup)
                    THEN ageGroupPreferences[score.userPreferences.ageGroup]
                    ELSE ageGroupPreferences.adult
    IN  [ ageGroup |-> 2000 * Cardinality({ k \in 1..Len(place.types) :
                                 Includes(agePrefs.priorityTypes, place.types[k]) }),
          price |-> IF Has(place, "price_level")
                    THEN 1000 * getPriceLevelScore(place.price_level,
                                                   score.userPreferences.priceRange)
                    ELSE 0,
          environment |-> getEnvironmentScore(place,
                                              score.userPreferences.preferredEnvironment),
          time |-> IF Has(score.context, "currentTime")
                   THEN getTimeScore(score.context.currentTime.hour,
                                     score.userPreferences.timePreference)
                   ELSE 0,
          operational |-> IF Has(place, "business_status")
                             /\ place.business_status = "OPERATIONAL"
                          THEN 1000 ELSE 0 ]

\* C15: in every scored place the terms besides rating, reviews and interests
\* are not negative, and what is left of the score after them and after twice
\* the rating is a review term of at most 5 plus exactly 3 for each tag of the
\* place found in the relevant-tag set; the place rated 4.8 with 1000 reviews
\* and the tag restaurant, scored for the interests ["food"], has 9.6 + 5 + 3
\* = 17.6 from these three terms and a personalizedScore of at least 17.6.
C15_ScoreTerms ==
    ScoringCompleted =>
      \A i \in 1..Len(score.result) :
        LET place == score.result[i]
            other == OtherTerms(place)
            matching == { k \in 1..Len(place.types) :
                            place.types[k] \in RelevantTags(score.userPreferences.interests) }
            reviews == place.personalizedScore - 200 * OrElse(place, "rating", 0)
                       - 3000 * Cardinality(matching)
                       - other.ageGroup - other.price - other.environment - other.time
                       - other.operational
        IN  /\ \A f \in DOMAIN other : other[f] >= 0
            /\ reviews >= 0 /\ reviews <= 5000
            /\ Len(place.matchingInterests) = Cardinality(matching)
            /\ ( /\ place.place_id = "p1"
                 /\ score.userPreferences.interests = <<"food">> )
               => /\ 200 * place.rating = 9600
                  /\ reviews = 5000
                  /\ Cardinality(matching) = 1
                  /\ place.personalizedScore >= 17600

\* the place rated 4.8 with 1000 reviews and the tag restaurant, ranked first
\* for the interests ["food"]
C15_Witness ==
    /\ ScoringCompleted
    /\ score.userPreferences.interests = <<"food">>
    /\ Len(score.result) > 0
    /\ score.result[1].place_id = "p1"
    /\ score.result[1].rating = 48
    /\ score.result[1].user_ratings_total = 1000
    /\ score.result[1].matchingInterests = <<"restaurant">>
    /\ score.result[1].personalizedScore >= 17600

(***************************************************************************)
(* The relevant-tag function on an interest list and on the same list with *)
(* one of its interests repeated                                           *)
(***************************************************************************)
MaxInterests == 3   \* longest interest list

\* two interests that share the tag museum, one without an entry in the table,
\* one that is the name of a property every object inherits
InterestNames == {"food", "culture", "history", "picnic", "constructor"}

InterestLists == SeqsUpTo(InterestNames, MaxInterests)

\* the list with one of its interests once more, in front or at the end
Repetitions(interests) ==
    IF interests = <<>> THEN { interests }
    ELSE UNION { { <<interests[k]>> \o interests, Append(interests, interests[k]) } :
                   k \in 1..Len(interests) }

InitTags ==
    /\ now = 0
    /\ PrefsIdle
    /\ score = ScoreIdle
    /\ keys = KeysIdle
    /\ client = ClientIdle
    /\ primary = PrimaryIdle
    /\ tags \in { [interests |-> i, repeated |-> r, done |-> FALSE,
                   result |-> <<>>, resultRepeated |-> <<>>] :
                    i \in InterestLists, r \in UNION { Repetitions(l) : l \in InterestLists } }
    /\ tags.repeated \in Repetitions(tags.interests)
    /\ CacheIdle
    /\ FlowIdle

\* one call of getRelevantPlaceTypes and what it gave
RelevantTypesCall(interests) ==
    IF RelevantTypesRaises(interests) THEN [threw |-> TRUE, value |-> <<>>]
    ELSE [threw |-> FALSE, value |-> getRelevantPlaceTypes(interests)]

RelevantTypes ==
    /\ ~tags.done
    /\ tags' = [tags EXCEPT !.done = TRUE,
                            !.result = RelevantTypesCall(tags.interests),
                            !.resultRepeated = RelevantTypesCall(tags.repeated)]
    /\ UNCHANGED <<score, keys, client, primary, now, prefVars, cacheVars, flowVars>>

NextTags == RelevantTypes

SpecTags == InitTags /\ [][NextTags]_vars

(***************************************************************************)
(* C16                                                                     *)
(***************************************************************************)
TagSet(types) == { types[k] : k \in 1..Len(types) }

\* C16: getRelevantPlaceTypes returns the same set of tags for an interest list
\* and for that list with an interest repeated, no tag is twice in its output,
\* and an interest without an entry in the interest table is in the output.
C16_RelevantTagsAsSet ==
    tags.done =>
        /\ ~tags.result.threw
        /\ ~tags.resultRepeated.threw
        /\ TagSet(tags.result.value) = TagSet(tags.resultRepeated.value)
        /\ Cardinality(TagSet(tags.result.value)) = Len(tags.result.value)
        /\ \A k \in 1..Len(tags.interests) :
              ~Has(interestMapping, tags.interests[k])
              => tags.interests[k] \in TagSet(tags.result.value)

(***************************************************************************)
(* C17                                                                     *)
(***************************************************************************)
\* C17: a success response holds at most 5 landmarks, 5 restaurants, 5
\* attractions, 3 entertainment and 3 shopping entries and at most 10 top
\* recommendations, and every top recommendation is an entry of one of the five
\* lists that personalizePlaces returned for the categories.
C17_ResponseCaps ==
    [][ ( Len(served') > Len(served) /\ served'[Len(served')].status = 200 )
        => LET answer == served'[Len(served')]
           IN  /\ Len(answer.categories.landmarks) <= 5
               /\ Len(answer.categories.restaurants) <= 5
               /\ Len(answer.categories.attractions) <= 5
               /\ Len(answer.categories.entertainment) <= 3
               /\ Len(answer.categories.shopping) <= 3
               /\ Len(answer.topRecommendations) <= 10
               /\ \A k \in 1..Len(answer.topRecommendations) :
                     \E c \in CategorySet :
                        Includes(answer.personalizedData[c],
                                 answer.topRecommendations[k]) ]_vars

\* a success response with 5 landmarks out of more, 10 top recommendations, and
\* a top recommendation that is in none of the capped lists of the response
C17_Witness ==
    \E i \in 1..Len(served) :
        /\ served[i].status = 200
        /\ Len(served[i].areaData.landmarks) > 5
        /\ Len(served[i].categories.landmarks) = 5
        /\ Len(served[i].topRecommendations) = 10
        /\ \E k \in 1..10 : \A c \in CategorySet :
              ~Includes(served[i].categories[c], served[i].topRecommendations[k])

(***************************************************************************)
(* C18                                                                     *)
(***************************************************************************)
\* the calls issued so far for the one request of SpecInsights
Issued(reads, lookups, writes, touches) ==
    /\ calls.cacheReads = reads
    /\ calls.lookups = lookups
    /\ calls.cacheWrites = writes
    /\ calls.touches = touches

\* C18: for a request that passes validation the cache read comes before any
\* lookup; after a hit the entry is touched and there is no lookup and no cache
\* write; after a miss there are five lookups, one per category and none
\* repeated, then one cache write of the bundle under the key that was read,
\* and only then are the preferences read.
C18_RequestProtocol ==
    /\ [] ( /\ request.pc = "cacheGet" => Issued(0, 0, 0, 0)
            /\ request.pc = "lookup" => Issued(1, 0, 0, 0) /\ ~request.fromCache
            /\ request.pc = "cacheWrite" => Issued(1, 5, 0, 0) /\ ~request.fromCache
            /\ request.pc = "touch" => Issued(1, 0, 0, 0) /\ request.fromCache
            /\ request.pc = "respond"
               => /\ calls.preferenceReads = 0
                  /\ IF request.fromCache THEN Issued(1, 0, 0, 1)
                                          ELSE Issued(1, 5, 1, 0)
            /\ calls.preferenceReads > 0
               => /\ calls.preferenceReads = 1
                  /\ Issued(1, 0, 0, 1) \/ Issued(1, 5, 1, 0) )
    /\ [][ calls'.lookups > calls.lookups
           => \A c \in CategorySet :
                 Cardinality({ k \in 1..Len(Categories) : Categories[k] = c }) = 1 ]_vars
    /\ [][ calls'.cacheWrites > calls.cacheWrites
           => \/ areaCache' = areaCache
              \/ /\ areaCache'[request.cacheKey].data.areaData = request.areaData
                 /\ request.areaData
                      = getAreaInsights(coordsOf(request.body),
                                        Replies(request.results, request.failed), now).value
                 /\ \A k \in AreaKeys \ {request.cacheKey} :
                       areaCache'[k] = areaCache[k] ]_vars

\* a request answered after a miss: one read, five lookups, one write that put
\* the bundle under the request's key, no touch
C18_Witness ==
    /\ served # <<>>
    /\ served[1].status = 200
    /\ ~served[1].fromCache
    /\ Issued(1, 5, 1, 0)
    /\ calls.preferenceReads = 1
    /\ areaCache[served[1].cacheKey].exists
    /\ areaCache[served[1].cacheKey].data.areaData = served[1].areaData
    /\ areaCache[served[1].cacheKey].data.cachedAt = served[1].at

(***************************************************************************)
(* C19                                                                     *)
(***************************************************************************)
\* C19: every touch that the orchestrator issues for a hit raises the
\* accessCount of the entry by 1 and sets its lastAccessed to the time of the
\* hit, and every cache write that is carried out leaves the entry with
\* accessCount 1.
C19_HitCountsAccess ==
    [][ /\ calls'.touches > calls.touches
           => LET before == areaCache[request.cacheKey].data
                  after == areaCache'[request.cacheKey].data
              IN  /\ after.accessCount = before.accessCount + 1
                  /\ after.lastAccessed = now
        /\ ( calls'.cacheWrites > calls.cacheWrites /\ areaCache' # areaCache )
           => areaCache'[request.cacheKey].data.accessCount = 1 ]_vars

(***************************************************************************)
(* C20                                                                     *)
(***************************************************************************)
\* the insights requests answered with success for a popular area
AnsweredFor(area) ==
    { i \in 1..Len(served) :
        /\ served[i].status = 200
        /\ generateCacheKey(coordsOf(served[i].body), popularAreaRadius) = area }

\* C20: the searchCount of a popular area never decreases, and once the writes
\* of the answered requests have ended it is the number of requests answered
\* for the area: the first creates the record with searchCount 1, each later
\* one adds 1 and sets lastSearched to its time.
C20_SearchCountCountsRequests ==
    /\ [][ \A a \in PopularAreaIds :
             popularAreas[a].exists
             => /\ popularAreas'[a].exists
                /\ popularAreas'[a].data.searchCount >= popularAreas[a].data.searchCount
          ]_vars
    /\ [] ( ( request.pc = "idle" /\ background = {} )
            => \A a \in PopularAreaIds :
                  IF AnsweredFor(a) = {} THEN ~popularAreas[a].exists
                  ELSE /\ popularAreas[a].exists
                       /\ popularAreas[a].data.searchCount = Cardinality(AnsweredFor(a))
                       /\ \E i \in AnsweredFor(a) :
                             /\ popularAreas[a].data.lastSearched = served[i].at
                             /\ \A j \in AnsweredFor(a) : j <= i )

(***************************************************************************)
(* C21                                                                     *)
(***************************************************************************)
\* the first request missed, one of its lookups failed, and its bundle was
\* written; the second asks for the same key before the entry expires, and
\* the store works
FailureCached ==
    /\ Len(served) >= 2
    /\ served[1].lookedUp /\ served[1].failed # {} /\ ~served[1].storeFailed
    /\ ~served[2].storeFailed
    /\ served[2].cacheKey = served[1].cacheKey
    /\ served[2].at - served[1].at <= cacheTTL

\* C21 as stated: after a request whose lookup failed for a category, every
\* request for the same key until the entry expires is a cache hit that
\* returns the empty category and issues no lookup.
C21_EveryRequestHits ==
    ( /\ Len(served) >= 2
      /\ served[1].lookedUp /\ served[1].failed # {}
      /\ served[2].cacheKey = served[1].cacheKey
      /\ served[2].at - served[1].at <= cacheTTL )
    => /\ served[2].fromCache /\ ~served[2].lookedUp
       /\ \A c \in served[1].failed : served[2].areaData[c] = <<>>

\* C21: a bundle in which a category is empty because its lookup failed is
\* cached like any other; when its cache write succeeded, a request for the
\* same key whose cache read succeeds before the entry expires is a cache hit
\* that returns the empty category and issues no lookup.
C21_FailedLookupIsCached ==
    FailureCached
    => /\ served[2].fromCache /\ ~served[2].lookedUp
       /\ calls.lookups = Len(Categories)
       /\ served[2].areaData = served[1].areaData
       /\ \A c \in served[1].failed :
            /\ served[2].areaData[c] = <<>>
            /\ served[2].status = 200 => served[2].categories[c] = <<>>

\* the restaurants lookup of the first request fails; one TTL later the
\* second request is answered from the cache without restaurants
C21_Witness ==
    /\ FailureCached
    /\ served[1].failed = {"restaurants"}
    /\ served[2].at - served[1].at = cacheTTL
    /\ served[2].status = 200 /\ served[2].fromCache
    /\ served[2].categories.restaurants = <<>>
    /\ served[2].categories.landmarks # <<>>

(***************************************************************************)
(* A client that sends back the records it holds                           *)
(***************************************************************************)
EchoedBodies ==
    { [preferences |-> p, userId |-> u] : p \in EchoedRecords \cup ValidPartials,
                                          u \in Users }

NextEcho ==
    \/ \E u \in Users, f \in BOOLEAN : GetPreferences(u, f)
    \/ \E b \in EchoedBodies, f \in BOOLEAN : PostPreferences(b, f)
    \/ \E u \in Users, p \in EchoedRecords \cup ValidPartials, f \in BOOLEAN :
          PutRead(u, p, f)
    \/ \E f \in BOOLEAN : PutWrite(f)
    \/ TickPrefs

SpecEcho == InitPrefs /\ [][NextEcho]_vars

(***************************************************************************)
(* C22                                                                     *)
(***************************************************************************)
\* a GET has just answered for a user without a document
ReadOfNewUser ==
    /\ prefsOp.op = "get" /\ ~prefsOp.failed
    /\ prefsOp.userId \in Users /\ ~userPrefs[prefsOp.userId].exists

\* the step answers a POST or a PUT that carried the record p
Sent(p) ==
    /\ prefsOp'.op \in {"post", "put"} /\ prefsOp' # prefsOp
    /\ prefsOp'.partial = p

\* C22: the record a GET returns for a user without a stored record, sent
\* back unchanged by POST or PUT, passes validatePreferences and is saved when
\* the store works; so does the frontend's initial record.
C22_DefaultsRoundTrip ==
    [][ /\ (ReadOfNewUser /\ Sent(prefsOp.value)) \/ Sent(initialStatePreferences)
           => /\ prefsOp'.status # 400
              /\ ~prefsOp'.failed => /\ prefsOp'.status \in {200, 201}
                                     /\ userPrefs'[prefsOp'.userId].exists
        /\ \A u \in Users :
             (ReadOfNewUser /\ ~put.active /\ put'.active /\ put'.userId = u)
                => validatePreferences([preferences |-> prefsOp.value]) ]_vars

(***************************************************************************)
(* C23                                                                     *)
(***************************************************************************)
\* the index of each price range, budget = 0 ... luxury = 4
preferredLevelIndex ==
    [budget |-> 0, low |-> 1, medium |-> 2, comfortable |-> 3, luxury |-> 4]

\* what the price term of a scored place is, in thousandths: its score less
\* every other term of the sum
PriceTerm(place) ==
    LET other == OtherTerms(place)
        matching == { k \in 1..Len(place.types) :
                        place.types[k] \in RelevantTags(score.userPreferences.interests) }
    IN  place.personalizedScore - 200 * OrElse(place, "rating", 0)
        - Min(LnMilli(OrElse(place, "user_ratings_total", 0) + 1), 5000)
        - 3000 * Cardinality(matching)
        - other.ageGroup - other.environment - other.time - other.operational

\* C23: for a price range of the enumeration the price term of a scored place
\* is max(0, 2 - |priceLevel - index(priceRange)|) with budget = 0, low = 1,
\* medium = 2, comfortable = 3, luxury = 4, and 0 for a place without a price
\* level.
C23_PriceLevelScore ==
    ( /\ ScoringCompleted
      /\ Has(preferredLevelIndex, score.userPreferences.priceRange) )
    => \A i \in 1..Len(score.result) :
         LET place == score.result[i]
             index == preferredLevelIndex[score.userPreferences.priceRange]
         IN  PriceTerm(place) =
               IF Has(place, "price_level")
               THEN 1000 * Max(0, 2 - Abs(place.price_level - index))
               ELSE 0

(***************************************************************************)
(* The frontend's preferences context (UserPreferencesContext.js)          *)
(*                                                                         *)
(* The context holds the preferences and hasChanges; the auto-save effect  *)
(* runs after every render in which hasChanges, the preferences or         *)
(* savePreferences changed: its cleanup clears the timer of the previous   *)
(* run, and the new run arms a timer of 2 s when hasChanges is true.  A    *)
(* reducer step and the effect run that follows it within the same frame   *)
(* are one step here.                                                      *)
(***************************************************************************)
MaxEdits == 3           \* updatePreference calls of one session
MaxSaves == 3           \* savePreferences calls of one session

\* the values updatePreference("priceRange", value) is called with
EditedRanges == {"budget", "medium", "luxury"}

\* updatePreference(key, value): UPDATE_PREFERENCE makes a new preferences
\* object and sets hasChanges, so the effect clears its timer and arms a new one
UpdatePreference(value) ==
    /\ client.edits < MaxEdits
    /\ client' = [ client EXCEPT
                     !.preferences = Spread(client.preferences, [priceRange |-> value]),
                     !.hasChanges = TRUE,
                     !.error = FALSE,
                     !.timer = TRUE,
                     !.edits = @ + 1 ]
    /\ UNCHANGED <<score, keys, tags, primary, now, prefVars, cacheVars, flowVars>>

\* the 2 s pass: savePreferences() posts the preferences of the render that
\* armed the timer, which are the current ones
AutoSave ==
    /\ client.timer
    /\ client.saves < MaxSaves
    /\ client' = [ client EXCEPT
                     !.timer = FALSE,
                     !.saves = @ + 1,
                     !.sent = client.preferences,
                     !.inFlight = @ \cup { [ n |-> client.saves + 1,
                                             preferences |-> client.preferences ] } ]
    /\ UNCHANGED <<score, keys, tags, primary, now, prefVars, cacheVars, flowVars>>

\* the response of a save: SET_LAST_SAVED clears hasChanges for whatever the
\* preferences are by now, and the effect, run again because hasChanges
\* changed, clears the timer and arms none; a refused or failed save sets the
\* error and leaves hasChanges and the timer alone
SaveSettles(r, success) ==
    /\ r \in client.inFlight
    /\ client' = IF success
                 THEN [ client EXCEPT
                          !.inFlight = @ \ {r},
                          !.hasChanges = FALSE,
                          !.timer = IF client.hasChanges THEN FALSE ELSE @ ]
                 ELSE [ client EXCEPT
                          !.inFlight = @ \ {r},
                          !.error = TRUE,
                          !.refused = TRUE ]
    /\ UNCHANGED <<score, keys, tags, primary, now, prefVars, cacheVars, flowVars>>

InitClient ==
    /\ now = 0
    /\ score = ScoreIdle
    /\ keys = KeysIdle
    /\ tags = TagsIdle
    /\ client = ClientIdle
    /\ primary = PrimaryIdle
    /\ PrefsIdle
    /\ CacheIdle
    /\ FlowIdle

NextClient ==
    \/ \E v \in EditedRanges : UpdatePreference(v)
    \/ AutoSave
    \/ \E r \in client.inFlight, ok \in BOOLEAN : SaveSettles(r, ok)

SpecClient == InitClient /\ [][NextClient]_vars

(***************************************************************************)
(* C24                                                                     *)
(***************************************************************************)
\* no timer is armed and no save is in flight
AtRest == ~client.timer /\ client.inFlight = {}

\* C24: with a backend that accepts every save, the context never comes to
\* rest with hasChanges = false while the preferences last sent to the backend
\* differ from the current preferences, a change made while an earlier
\* auto-save is in flight included.
C24_NoChangeLeftUnsent ==
    ( /\ AtRest /\ ~client.hasChanges
      /\ ~client.refused /\ client.edits > 0 )
    => client.sent = client.preferences

(***************************************************************************)
(* C25                                                                     *)
(***************************************************************************)
\* the context made of the server's clock alone
ServerClock(answer) == [currentTime |-> Date(answer.at % 24)]

\* C25: the scores, the ranking and the per-category lists of an answered
\* insights request are those computed for the server's clock at request
\* time, whatever the client's filters object holds: requests that differ
\* only in their filters get the same lists.
C25_FiltersDoNotChangeRanking ==
    [][ LET answer == served'[Len(served')]
            data == personalizedData(answer.areaData, answer.userPreferences,
                                     ServerClock(answer))
        IN  (Len(served') = Len(served) + 1 /\ answer.status = 200)
            => /\ answer.personalizedData = data
               /\ answer.topRecommendations =
                    topRecommendations(data, answer.userPreferences, ServerClock(answer))
               /\ \A c \in CategorySet :
                    answer.categories[c] = Slice(data[c], categoryLimit[c]) ]_vars

(***************************************************************************)
(* C26                                                                     *)
(***************************************************************************)
\* C26: topRecommendations never holds two entries with the same place
\* identifier, even when the provider returns a place under more than one of
\* the five category searches.
C26_TopRecommendationsDistinct ==
    [][ LET answer == served'[Len(served')]
            top == answer.topRecommendations
        IN  (Len(served') = Len(served) + 1 /\ answer.status = 200)
            => \A i, j \in 1..Len(top) :
                  top[i].place_id = top[j].place_id => i = j ]_vars

(***************************************************************************)
(* C27                                                                     *)
(***************************************************************************)
\* C27: the createdAt of a stored preference record is set by the first save
\* for the user and is not changed by a later save (POST) or update (PUT);
\* only updatedAt moves forward.
C27_CreatedAtIsStable ==
    [][ \A u \in Users :
          ( /\ userPrefs[u].exists /\ userPrefs'[u].exists
            /\ Has(userPrefs[u].data, "createdAt") )
          => /\ userPrefs'[u].data.createdAt = userPrefs[u].data.createdAt
             /\ userPrefs'[u].data.updatedAt >= userPrefs[u].data.updatedAt ]_vars

(***************************************************************************)
(* C28                                                                     *)
(***************************************************************************)
\* the entries getCachedAreaData would find expired now
ExpiredOnRead ==
    { k \in AreaKeys :
        /\ areaCache[k].exists
        /\ getCachedAreaData(areaCache, k, FALSE, FALSE, now).store[k] = NoDoc }

\* the step deletes the entries getCachedAreaData would find expired, keeps
\* the others as they are, and returns how many it deleted
CleansExactly ==
    /\ \A k \in AreaKeys :
          areaCache'[k] = IF k \in ExpiredOnRead THEN NoDoc ELSE areaCache[k]
    /\ \A k \in ExpiredOnRead : Age(areaCache[k].data) > cacheTTL
    /\ \A k \in AreaKeys \ ExpiredOnRead :
          areaCache[k].exists => Age(areaCache[k].data) <= cacheTTL
    /\ cacheOp'.value.deleteCount = Cardinality(ExpiredOnRead)

\* C28 as stated: every cleanupExpiredCache deletes exactly the entries older
\* than the TTL, which are those getCachedAreaData would treat as expired,
\* leaves the others unchanged and returns the number it deleted.
C28_CleanupDeletesExpired ==
    [][ \A q \in BOOLEAN, c \in BOOLEAN : CacheCleanup(q, c) => CleansExactly ]_vars

\* C28: a cleanupExpiredCache whose query and batch commit succeed deletes
\* exactly the entries older than the TTL, which are those getCachedAreaData
\* would treat as expired (an entry aged exactly the TTL is kept by both),
\* leaves the others unchanged and returns the number it deleted; one whose
\* query or commit fails deletes nothing and returns 0.
C28_CleanupDeletesExpiredUnlessStoreFails ==
    [][ /\ CacheCleanup(FALSE, FALSE) => CleansExactly
        /\ \A q \in BOOLEAN, c \in BOOLEAN :
             (CacheCleanup(q, c) /\ (q \/ c))
             => areaCache' = areaCache /\ cacheOp'.value.deleteCount = 0 ]_vars

\* a cleanup has deleted one entry and kept another that is exactly one TTL old
C28_Witness ==
    /\ cacheOp.op = "cleanup" /\ cacheOp.failed = "none"
    /\ cacheOp.value.deleteCount = 1
    /\ \E k \in AreaKeys : /\ areaCache[k].exists
                           /\ Age(areaCache[k].data) = cacheTTL
    /\ \E k \in AreaKeys : ~areaCache[k].exists

(***************************************************************************)
(* The fan-out of placesService.getAreaInsights, one search at a time      *)
(*                                                                         *)
(* The five searchNearbyPlaces calls are issued together and settle one by *)
(* one, in any order: a call returns, fails, or is cut off by its timeout  *)
(* of 10 s.  Promise.allSettled resolves when the last of them settles.    *)
(***************************************************************************)
\* lines 562-568: the five searches are issued; results is what the provider
\* would find
Search(results) ==
    /\ request.pc = "lookup"
    /\ request' = [ request EXCEPT !.pc = "searching", !.results = results,
                                   !.settled = {}, !.failed = {} ]
    /\ calls' = [calls EXCEPT !.lookups = @ + Len(Categories)]
    /\ UNCHANGED <<now, engineVars, prefVars, cacheVars, arrivals, served, popularAreas,
                   analytics, background>>

\* the search of one category settles: fulfilled, or rejected by an error
\* status or by the timeout
Settle(c, fails) ==
    /\ request.pc = "searching"
    /\ c \in CategorySet \ request.settled
    /\ request' = [ request EXCEPT
                      !.settled = @ \cup {c},
                      !.failed = IF fails THEN @ \cup {c} ELSE @ ]
    /\ UNCHANGED <<now, engineVars, prefVars, cacheVars, arrivals, served, popularAreas,
                   analytics, background, calls>>

\* Promise.all in place of Promise.allSettled: it resolves when every search
\* is fulfilled and rejects otherwise, and here the handler waits on
GatherFulfilled ==
    /\ request.pc = "searching"
    /\ request.settled = CategorySet
    /\ request.failed = {}
    /\ LET got == getAreaInsights(coordsOf(request.body),
                                  Replies(request.results, request.failed), now)
       IN  request' = [ request EXCEPT !.pc = "cacheWrite", !.lookedUp = TRUE,
                                       !.areaData = got.value ]
    /\ UNCHANGED <<now, engineVars, prefVars, cacheVars, arrivals, served, popularAreas,
                   analytics, background, calls>>

\* lines 569-591: every search has settled; the bundle is built from the
\* fulfilled ones and handed to the handler
Gather ==
    /\ request.pc = "searching"
    /\ request.settled = CategorySet
    /\ LET got == getAreaInsights(coordsOf(request.body),
                                  Replies(request.results, request.failed), now)
       IN  request' = [ request EXCEPT !.pc = "cacheWrite", !.lookedUp = TRUE,
                                       !.areaData = got.value ]
    /\ UNCHANGED <<now, engineVars, prefVars, cacheVars, arrivals, served, popularAreas,
                   analytics, background, calls>>

NextFanOut ==
    \/ Receive
    \/ \E r \in BOOLEAN, d \in BOOLEAN : CacheRead(r, d)
    \/ Search(ProviderResults)
    \/ \E c \in CategorySet, f \in BOOLEAN : Settle(c, f)
    \/ Gather
    \/ \E f \in BOOLEAN : CacheWrite(f)
    \/ Touch
    \/ \E f \in BOOLEAN : Respond(f)
    \/ \E t \in background, f \in BOOLEAN : TrackPopularArea(t, f)
    \/ \E t \in background, f \in BOOLEAN : LogAnalyticsEvent(t, f)

\* the steps of the handler up to its last await: each is the return, the
\* failure or the timeout of a call it awaits
Awaited ==
    \/ Receive
    \/ \E r \in BOOLEAN, d \in BOOLEAN : CacheRead(r, d)
    \/ Search(ProviderResults)
    \/ \E c \in CategorySet, f \in BOOLEAN : Settle(c, f)
    \/ Gather
    \/ \E f \in BOOLEAN : CacheWrite(f)
    \/ Touch

\* the last step of the handler, which Respond takes: getUserPreferences
\* returns and the handler runs to its res.json or to its catch.  Respond can
\* be taken whenever the handler is at this point, and only Respond leaves it.
Answering == request.pc = "respond" /\ request' = RequestIdle

\* every call the handler awaits returns, fails or times out: the handler
\* does not stay for ever at a step it can take
FanOutFairness == WF_vars(Awaited) /\ WF_request(Answering)

\* one request of any kind, its searches settling in any order
SpecFanOut == InitInsights /\ [][NextFanOut]_vars /\ FanOutFairness

(***************************************************************************)
(* C29                                                                     *)
(***************************************************************************)
\* the requests that have arrived and are not answered yet
InHand == IF request.pc = "idle" THEN 0 ELSE 1

\* C29: when every provider call and every store call settles, an insights
\* request is eventually answered, and answered once: the fan-out completes
\* when its five searches have settled, in any order, and no failed search,
\* cache write or analytics write leaves the request without a response.
C29_EveryRequestAnswered ==
    /\ [](Len(arrivals) + InHand + Len(served) = 1)
    /\ [][Len(served') <= Len(served) + 1 /\ (Len(served') > Len(served) => InHand' = 0)]_vars
    /\ <>(Len(served) = 1 /\ InHand = 0)

\* a request whose restaurant and shopping searches and whose cache write
\* all failed has been answered with status 200
C29_Witness ==
    /\ Len(served) = 1 /\ request.pc = "idle"
    /\ served[1].status = 200
    /\ served[1].lookedUp /\ served[1].failed = {"restaurants", "shopping"}
    /\ served[1].storeFailed /\ ~areaCache[served[1].cacheKey].exists
    /\ background = {} /\ analytics = <<>>

(***************************************************************************)
(* The primary-type function on a list of place types                      *)
(***************************************************************************)
MaxTypes == 3       \* longest list of place types

TypeNames == {"park", "restaurant", "museum", "lodging", "store"}

InitPrimary ==
    /\ now = 0
    /\ score = ScoreIdle
    /\ keys = KeysIdle
    /\ tags = TagsIdle
    /\ client = ClientIdle
    /\ primary \in { [types |-> t, done |-> FALSE, result |-> ""] :
                       t \in SeqsUpTo(TypeNames, MaxTypes) }
    /\ PrefsIdle
    /\ CacheIdle
    /\ FlowIdle

\* one call of getPrimaryPlaceType
PrimaryPlaceType ==
    /\ ~primary.done
    /\ primary' = [primary EXCEPT !.done = TRUE,
                                  !.result = getPrimaryPlaceType(primary.types)]
    /\ UNCHANGED <<score, keys, tags, client, now, prefVars, cacheVars, flowVars>>

NextPrimary == PrimaryPlaceType

SpecPrimary == InitPrimary /\ [][NextPrimary]_vars

(***************************************************************************)
(* C30                                                                     *)
(***************************************************************************)
\* the entries of the priority list that are among the types, by position
PriorityMatches(types) ==
    { k \in 1..Len(primaryTypes) : \E n \in 1..Len(types) : types[n] = primaryTypes[k] }

\* C30: getPrimaryPlaceType returns the first entry of the priority list that
\* is among the place's tags; if none is, the place's first tag; and if the
\* tag list is empty, "general".
C30_PrimaryPlaceType ==
    primary.done =>
        primary.result =
            IF PriorityMatches(primary.types) # {}
            THEN primaryTypes[CHOOSE k \in PriorityMatches(primary.types) :
                                 \A j \in PriorityMatches(primary.types) : k <= j]
            ELSE IF primary.types # <<>> THEN primary.types[1]
            ELSE "general"

====
